---- MODULE Spec2Model ----
(***************************************************************************)
(* State machine of the streams User (streams/src/api/user.rs): the        *)
(* per-user State, the send operations with their transport suspension    *)
(* points, and the handle_* receive handlers.  Cryptography is symbolic:  *)
(* a Spongos is the term built from the parent Spongos it joined and the  *)
(* content it absorbed.                                                    *)
(***************************************************************************)
EXTENDS Integers, Sequences, FiniteSets, TLC

VARIABLES user_id, stream_address, author_identifier, cursor_store, psk_store,
          exchange_keys, spongos_store, transport, pending, last, orphans, pcf, call

vars == <<user_id, stream_address, author_identifier, cursor_store, psk_store,
          exchange_keys, spongos_store, transport, pending, last, orphans, pcf, call>>

(***************************************************************************)
(* Bounds of the model.                                                    *)
(***************************************************************************)
\* largest sequence number a send may use
MaxCursor == 2
\* largest number of messages the transport may hold
MaxMsgs == 3

(***************************************************************************)
(* Program constants.                                                      *)
(***************************************************************************)
ANN_MESSAGE_NUM == 0
SUB_MESSAGE_NUM == 0
INIT_MESSAGE_NUM == 1

(***************************************************************************)
(* Users, identities, identifiers.                                         *)
(***************************************************************************)
Users == {"A", "B"}
\* the users whose owner calls create_stream
Authors == {"A"}

\* Option<T>: None is the empty tuple, Some(v) the one-element tuple
None == <<>>
Some(v) == <<v>>
IsSome(o) == o # <<>>
Unwrapped(o) == o[1]

\* a Psk
psk_of(pskid) == <<"psk", pskid>>
\* the (user_id, psks) handed to User::new by the builder: A has a key-pair
\* identity and the pre shared key K1; B has either a key-pair identity and no
\* pre shared key, or no identity and the pre shared key K1
Builds ==
    { [A |-> [user_id |-> Some("A"), psks |-> {"K1"}], B |-> b] :
        b \in { [user_id |-> Some("B"), psks |-> {}], [user_id |-> None, psks |-> {"K1"}] } }

\* Identity::to_identifier
to_identifier(identity) == identity
\* Identity::_ke_sk().public_key() / Identifier::_ke_pk()
ke_pk(id) == <<"x25519", id>>

\* Permissioned<Identifier>
Read(id) == <<"Read", id>>
ReadWrite(id) == <<"ReadWrite", id>>
Admin(id) == <<"Admin", id>>
identifier_of(p) == p[2]
is_readonly(p) == p[1] = "Read"

(***************************************************************************)
(* Addresses.                                                              *)
(***************************************************************************)
AppAddr_gen(id, idx) == <<id, idx>>
MsgId_gen(base, id, seq) == <<base, id, seq>>
Address_new(base, rel) == <<base, rel>>
base_of(addr) == addr[1]
relative(addr) == addr[2]

(***************************************************************************)
(* Finite maps (HashMap).                                                  *)
(***************************************************************************)
EmptyMap == <<>>
map_insert(m, k, v) == [x \in (DOMAIN m) \cup {k} |-> IF x = k THEN v ELSE m[x]]
map_remove(m, k) == [x \in (DOMAIN m) \ {k} |-> m[x]]
map_contains(m, k) == k \in DOMAIN m

(***************************************************************************)
(* CursorStore.                                                            *)
(***************************************************************************)
Max(a, b) == IF a >= b THEN a ELSE b
get_cursor(cs, id) == IF id \in DOMAIN cs THEN Some(cs[id]) ELSE None
is_cursor_tracked(cs, id) == id \in DOMAIN cs
insert_cursor(cs, id, cursor) ==
    map_insert(cs, id, IF id \in DOMAIN cs THEN Max(cs[id], cursor) ELSE cursor)
cursor_remove(cs, id) == map_remove(cs, id)

(***************************************************************************)
(* Spongos terms and wire messages.                                        *)
(***************************************************************************)
\* content of a PCF: the fields the six message kinds carry
Content(subject, ke, to, subs, psks, payload, nonce) ==
    [subject |-> subject, ke |-> ke, to |-> to, subs |-> subs, psks |-> psks,
     payload |-> payload, nonce |-> nonce]

\* the Spongos left by wrapping or unwrapping HDF + PCF after join(parent):
\* message type, publisher and content are absorbed, sequence number and
\* linked address are skipped
Spongos(parent, kind, publisher, content) ==
    [parent |-> parent, kind |-> kind, publisher |-> publisher, content |-> content]

\* HDF::new(kind, seq, publisher).with_linked_msg_address(link) + PCF content;
\* parent is the Spongos the content was joined to, sig the key that signed
\* ("mac" for the squeezed MAC of a tagged packet)
Message(kind, seq, publisher, link, content, parent, sig) ==
    [kind |-> kind, seq |-> seq, publisher |-> publisher, link |-> link,
     content |-> content, parent |-> parent, sig |-> sig]

\* LetsMessage::wrap: the transport message and the Spongos after the wrap
wrap_spongos(m) == Spongos(m.parent, m.kind, m.publisher, m.content)

\* should_store_cursor
should_store_cursor_of_readers(cs, subscriber) ==
    ~is_cursor_tracked(cs, identifier_of(subscriber))
should_store_cursor(cs, subscriber) ==
    ~is_readonly(subscriber) /\ ~is_cursor_tracked(cs, identifier_of(subscriber))

\* the loop "for subscriber in subscribers: if should_store_cursor(subscriber)
\* insert_cursor(subscriber.identifier(), INIT_MESSAGE_NUM)"
store_subscriber_cursors(cs, subscribers) ==
    LET fresh == {identifier_of(s) : s \in {x \in subscribers : should_store_cursor(cs, x)}}
    IN [id \in (DOMAIN cs) \cup fresh |->
           IF id \in DOMAIN cs THEN cs[id] ELSE INIT_MESSAGE_NUM]

(***************************************************************************)
(* Payload Carrying Frame (LETS/src/message/pcf.rs).  A PCF is kept        *)
(* without its content: frame_type and the u32 inside PayloadFrameNum.     *)
(***************************************************************************)
\* a u32 is the pair of its high and its low 16 bits
Pow2(n) == 2 ^ n
Half == Pow2(16)
u32(hi, lo) == <<hi, lo>>
u32_of(n) == u32(n \div Half, n % Half)
FrameNumBits == 22

\* the frame types of version.rs, by name
INIT_PCF_ID == "INIT_PCF_ID"
INTER_PCF_ID == "INTER_PCF_ID"
FINAL_PCF_ID == "FINAL_PCF_ID"

\* Result<T>
Ok(v) == <<"Ok", v>>
Err(e) == <<"Err", e>>
IsOk(r) == r[1] = "Ok"
Value(r) == r[2]

\* u32 >> k, for 16 <= k < 32
Shr(n, k) == n[1] \div Pow2(k - 16)

\* PayloadFrameNum::from_u32_unchecked
from_u32_unchecked(frame_num) == frame_num
\* PayloadFrameNum::validate
validate_24_bits(payload_frame_num) ==
    IF Shr(payload_frame_num, 24) = 0 THEN Ok(<<>>) ELSE Err("FrameNumTooBig")
validate(payload_frame_num) ==
    IF Shr(payload_frame_num, FrameNumBits) = 0 THEN Ok(<<>>) ELSE Err("FrameNumTooBig")
\* PayloadFrameNum::from_u32 and TryFrom<u32> for PayloadFrameNum
from_u32(frame_num) ==
    IF IsOk(validate(frame_num)) THEN Ok(from_u32_unchecked(frame_num))
    ELSE validate(frame_num)
try_from(frame_num) == from_u32(frame_num)
\* PayloadFrameNum::to_inner
to_inner(frame_num) == frame_num

\* u32::to_be_bytes / u32::from_be_bytes
to_be_bytes(n) == <<n[1] \div 256, n[1] % 256, n[2] \div 256, n[2] % 256>>
from_be_bytes(bytes) == u32(bytes[1] * 256 + bytes[2], bytes[3] * 256 + bytes[4])

\* From<PayloadFrameNum> for NBytes<[u8; 3]>: bytes[1..=3] of the big-endian u32
NBytes_from(frame_num) == SubSeq(to_be_bytes(to_inner(frame_num)), 2, 4)
\* From<NBytes<[u8; 3]>> for PayloadFrameNum
PayloadFrameNum_from_22_bits(nbytes) ==
    from_u32_unchecked(from_be_bytes(<<0, nbytes[1] % 64, nbytes[2], nbytes[3]>>))
PayloadFrameNum_from(nbytes) == from_u32_unchecked(from_be_bytes(<<0>> \o nbytes))

PCF(frame_type, payload_frame_num) ==
    [frame_type |-> frame_type, payload_frame_num |-> payload_frame_num]
new_init_frame == PCF(INIT_PCF_ID, from_u32_unchecked(u32_of(1)))
new_inter_frame == PCF(INTER_PCF_ID, from_u32_unchecked(u32_of(1)))
new_final_frame == PCF(FINAL_PCF_ID, from_u32_unchecked(u32_of(1)))

\* a pure function was applied: which, to what, and what it returned
Call(fn, arg, ret) == [fn |-> fn, arg |-> arg, ret |-> ret]
NoCall == Call("none", <<>>, <<>>)

(***************************************************************************)
(* State of one user and the record of the last operation.                 *)
(***************************************************************************)
State(u) == <<user_id[u], stream_address[u], author_identifier[u], cursor_store[u],
              psk_store[u], exchange_keys[u], spongos_store[u]>>

\* what the last step did: who, which operation and its outcome (the address
\* and the corruption of the delivery are not recorded)
Last(u, op, out, addr, corrupt) ==
    [user |-> u, op |-> op, out |-> out]

Idle(u) == pending[u] = None

\* User::cursor and User::next_cursor
cursor(u) ==
    IF IsSome(user_id[u])
    THEN get_cursor(cursor_store[u], to_identifier(Unwrapped(user_id[u])))
    ELSE None
\* next_cursor starting a user with an identifier and no cursor at INIT_MESSAGE_NUM
next_cursor_or_init(u) ==
    IF IsSome(cursor(u)) THEN Some(Unwrapped(cursor(u)) + 1)
    ELSE IF IsSome(user_id[u]) THEN Some(INIT_MESSAGE_NUM)
    ELSE None
next_cursor(u) == IF IsSome(cursor(u)) THEN Some(Unwrapped(cursor(u)) + 1) ELSE None

\* User::new
Init ==
    /\ \E build \in Builds :
        /\ user_id = [u \in Users |-> build[u].user_id]
        /\ psk_store = [u \in Users |-> [k \in build[u].psks |-> psk_of(k)]]
        /\ exchange_keys = [u \in Users |->
               IF IsSome(build[u].user_id)
               THEN map_insert(EmptyMap, to_identifier(Unwrapped(build[u].user_id)),
                               ke_pk(to_identifier(Unwrapped(build[u].user_id))))
               ELSE EmptyMap]
    /\ stream_address = [u \in Users |-> None]
    /\ author_identifier = [u \in Users |-> None]
    /\ cursor_store = [u \in Users |-> EmptyMap]
    /\ spongos_store = [u \in Users |-> EmptyMap]
    /\ transport = EmptyMap
    /\ pending = [u \in Users |-> None]
    /\ last = Last("A", "new", "ok", None, FALSE)
    /\ orphans = [u \in Users |-> {}]
    /\ pcf = new_final_frame
    /\ call = NoCall

(***************************************************************************)
(* Send path: each send operation runs up to transport.recv_message, is   *)
(* resumed when that resolves, runs up to transport.send_message, and      *)
(* commits to the stores when that resolves successfully.                  *)
(***************************************************************************)
\* the locals of a send operation that is suspended at a transport await
Pending(op, stage, addr, msg, spongos, new_cursor, subscribers) ==
    [op |-> op, stage |-> stage, addr |-> addr, msg |-> msg, spongos |-> spongos,
     new_cursor |-> new_cursor, subscribers |-> subscribers]

\* inputs of the send operations
StreamIdxs == {0}
UnknownLink == MsgId_gen(AppAddr_gen("A", 9), "A", 0)
LinkChoices(u) == (DOMAIN spongos_store[u]) \cup {UnknownLink}
KeyloadInputs ==
    { <<{ReadWrite("B")}, {"K1"}>>, <<{Read("B")}, {}>>, <<{}, {"K1"}>>, <<{}, {"K2"}>> }
Payload == "payload"
NoContent == Content("", <<>>, <<>>, {}, {}, "", 0)

\* the model explores sends while the transport holds fewer than MaxMsgs
\* messages and sequence numbers up to MaxCursor
RoomToSend(u) ==
    /\ Cardinality(DOMAIN transport) < MaxMsgs
    /\ IsSome(next_cursor(u)) => Unwrapped(next_cursor(u)) <= MaxCursor

\* an early return with an error: nothing but the outcome is recorded
fail(u, op, err) ==
    /\ last' = Last(u, op, err, None, FALSE)
    /\ UNCHANGED <<user_id, stream_address, author_identifier, cursor_store, psk_store,
                   exchange_keys, spongos_store, transport, pending, orphans, pcf, call>>

\* the message is wrapped; the operation awaits transport.recv_message(addr)
suspend(u, p) ==
    /\ pending' = [pending EXCEPT ![u] = Some(p)]
    /\ last' = Last(u, p.op, "recv", Some(p.addr), FALSE)
    /\ UNCHANGED <<user_id, stream_address, author_identifier, cursor_store, psk_store,
                   exchange_keys, spongos_store, transport, orphans, pcf, call>>

create_stream(u, stream_idx) ==
    /\ Idle(u)
    /\ RoomToSend(u)
    /\ IF IsSome(stream_address[u]) THEN fail(u, "create_stream", "err:AlreadyInStream")
       ELSE IF ~IsSome(user_id[u]) THEN fail(u, "create_stream", "err:NoIdentity")
       ELSE LET id == to_identifier(Unwrapped(user_id[u]))
                stream_base_address == AppAddr_gen(id, stream_idx)
                stream_rel_address == MsgId_gen(stream_base_address, id, INIT_MESSAGE_NUM)
                addr == Address_new(stream_base_address, stream_rel_address)
                content == [NoContent EXCEPT !.subject = id, !.ke = ke_pk(id)]
                msg == Message("announcement", ANN_MESSAGE_NUM, id, None, content, None, id)
            IN suspend(u, Pending("create_stream", "recv", addr, msg, wrap_spongos(msg),
                                  INIT_MESSAGE_NUM, {}))

subscribe(u, link_to) ==
    /\ Idle(u)
    /\ RoomToSend(u)
    /\ IF ~IsSome(stream_address[u]) THEN fail(u, "subscribe", "err:NoStream")
       ELSE IF ~IsSome(user_id[u]) THEN fail(u, "subscribe", "err:NoIdentity")
       ELSE IF ~map_contains(spongos_store[u], link_to) THEN fail(u, "subscribe", "err:UnknownLink")
       ELSE IF ~(IsSome(author_identifier[u])
                 /\ map_contains(exchange_keys[u], Unwrapped(author_identifier[u])))
            THEN fail(u, "subscribe", "panic")
       ELSE LET id == to_identifier(Unwrapped(user_id[u]))
                base == base_of(Unwrapped(stream_address[u]))
                rel_address == MsgId_gen(base, id, SUB_MESSAGE_NUM)
                author_ke_pk == exchange_keys[u][Unwrapped(author_identifier[u])]
                content == [NoContent EXCEPT !.subject = id, !.ke = ke_pk(id), !.to = author_ke_pk]
                msg == Message("subscription", SUB_MESSAGE_NUM, id, Some(link_to), content,
                               Some(spongos_store[u][link_to]), id)
            IN suspend(u, Pending("subscribe", "recv", Address_new(base, rel_address), msg,
                                  wrap_spongos(msg), SUB_MESSAGE_NUM, {}))

unsubscribe(u, link_to) ==
    /\ Idle(u)
    /\ RoomToSend(u)
    /\ IF ~IsSome(stream_address[u]) THEN fail(u, "unsubscribe", "err:NoStream")
       ELSE IF ~IsSome(user_id[u]) THEN fail(u, "unsubscribe", "err:NoIdentity")
       ELSE IF ~IsSome(next_cursor(u)) THEN fail(u, "unsubscribe", "err:NotPublisher")
       ELSE IF ~map_contains(spongos_store[u], link_to) THEN fail(u, "unsubscribe", "err:UnknownLink")
       ELSE LET id == to_identifier(Unwrapped(user_id[u]))
                new_cursor == Unwrapped(next_cursor(u))
                base == base_of(Unwrapped(stream_address[u]))
                rel_address == MsgId_gen(base, id, new_cursor)
                content == [NoContent EXCEPT !.subject = id]
                msg == Message("unsubscription", new_cursor, id, Some(link_to), content,
                               Some(spongos_store[u][link_to]), id)
            IN suspend(u, Pending("unsubscribe", "recv", Address_new(base, rel_address), msg,
                                  wrap_spongos(msg), new_cursor, {}))

send_keyload_unvalidated(u, link_to, subscribers, psk_ids) ==
    /\ Idle(u)
    /\ RoomToSend(u)
    /\ IF ~IsSome(stream_address[u]) THEN fail(u, "send_keyload", "err:NoStream")
       ELSE IF ~IsSome(user_id[u]) THEN fail(u, "send_keyload", "err:NoIdentity")
       ELSE IF ~IsSome(next_cursor(u)) THEN fail(u, "send_keyload", "err:NotPublisher")
       ELSE IF ~map_contains(spongos_store[u], relative(Unwrapped(stream_address[u])))
            THEN fail(u, "send_keyload", "panic")
       ELSE LET id == to_identifier(Unwrapped(user_id[u]))
                new_cursor == Unwrapped(next_cursor(u))
                base == base_of(Unwrapped(stream_address[u]))
                rel_address == MsgId_gen(base, id, new_cursor)
                announcement_spongos == spongos_store[u][relative(Unwrapped(stream_address[u]))]
                content == [NoContent EXCEPT !.subs = subscribers, !.psks = psk_ids,
                                             !.nonce = new_cursor]
                msg == Message("keyload", new_cursor, id, Some(link_to), content,
                               Some(announcement_spongos), id)
            IN suspend(u, Pending("send_keyload", "recv", Address_new(base, rel_address), msg,
                                  wrap_spongos(msg), new_cursor, subscribers))
send_keyload(u, link_to, subscribers, psk_ids) ==
    /\ Idle(u)
    /\ RoomToSend(u)
    /\ IF ~IsSome(stream_address[u]) THEN fail(u, "send_keyload", "err:NoStream")
       ELSE IF ~IsSome(user_id[u]) THEN fail(u, "send_keyload", "err:NoIdentity")
       ELSE IF ~IsSome(next_cursor(u)) THEN fail(u, "send_keyload", "err:NotPublisher")
       ELSE IF ~map_contains(spongos_store[u], relative(Unwrapped(stream_address[u])))
            THEN fail(u, "send_keyload", "panic")
       ELSE IF \E s \in subscribers : ~map_contains(exchange_keys[u], identifier_of(s))
            THEN fail(u, "send_keyload", "err:UnknownSubscriber")
       ELSE IF \E k \in psk_ids : ~map_contains(psk_store[u], k)
            THEN fail(u, "send_keyload", "err:UnknownPsk")
       ELSE LET id == to_identifier(Unwrapped(user_id[u]))
                new_cursor == Unwrapped(next_cursor(u))
                base == base_of(Unwrapped(stream_address[u]))
                rel_address == MsgId_gen(base, id, new_cursor)
                announcement_spongos == spongos_store[u][relative(Unwrapped(stream_address[u]))]
                content == [NoContent EXCEPT !.subs = subscribers, !.psks = psk_ids,
                                             !.nonce = new_cursor]
                msg == Message("keyload", new_cursor, id, Some(link_to), content,
                               Some(announcement_spongos), id)
            IN suspend(u, Pending("send_keyload", "recv", Address_new(base, rel_address), msg,
                                  wrap_spongos(msg), new_cursor, subscribers))

send_signed_packet(u, link_to, payload) ==
    /\ Idle(u)
    /\ RoomToSend(u)
    /\ IF ~IsSome(stream_address[u]) THEN fail(u, "send_signed_packet", "err:NoStream")
       ELSE IF ~IsSome(next_cursor(u)) THEN fail(u, "send_signed_packet", "err:NotPublisher")
       ELSE IF ~map_contains(spongos_store[u], link_to)
            THEN fail(u, "send_signed_packet", "err:UnknownLink")
       ELSE LET id == to_identifier(Unwrapped(user_id[u]))
                new_cursor == Unwrapped(next_cursor(u))
                base == base_of(Unwrapped(stream_address[u]))
                rel_address == MsgId_gen(base, id, new_cursor)
                content == [NoContent EXCEPT !.payload = payload]
                msg == Message("signed_packet", new_cursor, id, Some(link_to), content,
                               Some(spongos_store[u][link_to]), id)
            IN suspend(u, Pending("send_signed_packet", "recv", Address_new(base, rel_address),
                                  msg, wrap_spongos(msg), new_cursor, {}))

send_tagged_packet(u, link_to, payload) ==
    /\ Idle(u)
    /\ RoomToSend(u)
    /\ IF ~IsSome(stream_address[u]) THEN fail(u, "send_tagged_packet", "err:NoStream")
       ELSE IF ~IsSome(next_cursor(u)) THEN fail(u, "send_tagged_packet", "err:NotPublisher")
       ELSE IF ~map_contains(spongos_store[u], link_to)
            THEN fail(u, "send_tagged_packet", "err:UnknownLink")
       ELSE LET id == to_identifier(Unwrapped(user_id[u]))
                new_cursor == Unwrapped(next_cursor(u))
                base == base_of(Unwrapped(stream_address[u]))
                rel_address == MsgId_gen(base, id, new_cursor)
                content == [NoContent EXCEPT !.payload = payload]
                msg == Message("tagged_packet", new_cursor, id, Some(link_to), content,
                               Some(spongos_store[u][link_to]), "mac")
            IN suspend(u, Pending("send_tagged_packet", "recv", Address_new(base, rel_address),
                                  msg, wrap_spongos(msg), new_cursor, {}))

\* "If message has been sent successfully, commit message to stores"
commit_cursor_store_forgets(u, p) ==
    IF p.op = "create_stream"
    THEN insert_cursor(cursor_store[u], to_identifier(Unwrapped(user_id[u])), INIT_MESSAGE_NUM)
    ELSE cursor_store[u]
commit_cursor_store_ann(u, p) ==
    LET id == to_identifier(Unwrapped(user_id[u]))
        cs == cursor_store[u]
    IN CASE p.op = "create_stream" -> insert_cursor(cs, id, ANN_MESSAGE_NUM)
         [] p.op = "subscribe" -> cs
         [] p.op = "send_keyload" ->
                insert_cursor(store_subscriber_cursors(cs, p.subscribers), id, p.new_cursor)
         [] OTHER -> insert_cursor(cs, id, p.new_cursor)
commit_cursor_store_seeds_sub(u, p) ==
    LET id == to_identifier(Unwrapped(user_id[u]))
        cs == cursor_store[u]
    IN CASE p.op = "create_stream" -> insert_cursor(cs, id, INIT_MESSAGE_NUM)
         [] p.op = "subscribe" -> insert_cursor(cs, id, SUB_MESSAGE_NUM)
         [] p.op = "send_keyload" ->
                insert_cursor(store_subscriber_cursors(cs, p.subscribers), id, p.new_cursor)
         [] OTHER -> insert_cursor(cs, id, p.new_cursor)
commit_cursor_store(u, p) ==
    LET id == to_identifier(Unwrapped(user_id[u]))
        cs == cursor_store[u]
    IN CASE p.op = "create_stream" -> insert_cursor(cs, id, INIT_MESSAGE_NUM)
         [] p.op = "subscribe" -> cs
         [] p.op = "send_keyload" ->
                insert_cursor(store_subscriber_cursors(cs, p.subscribers), id, p.new_cursor)
         [] OTHER -> insert_cursor(cs, id, p.new_cursor)

commit_spongos_store_all(u, p) == map_insert(spongos_store[u], relative(p.addr), p.spongos)
commit_spongos_store_ann(u, p) ==
    IF p.op \in {"subscribe", "create_stream"} THEN spongos_store[u]
    ELSE map_insert(spongos_store[u], relative(p.addr), p.spongos)
commit_spongos_store(u, p) ==
    IF p.op = "subscribe" THEN spongos_store[u]
    ELSE map_insert(spongos_store[u], relative(p.addr), p.spongos)

commit_stores(u, p) ==
    /\ stream_address' = [stream_address EXCEPT ![u] =
           IF p.op = "create_stream" THEN Some(p.addr) ELSE @]
    /\ author_identifier' = [author_identifier EXCEPT ![u] =
           IF p.op = "create_stream" THEN Some(to_identifier(Unwrapped(user_id[u]))) ELSE @]
    /\ cursor_store' = [cursor_store EXCEPT ![u] = commit_cursor_store(u, p)]
    /\ spongos_store' = [spongos_store EXCEPT ![u] = commit_spongos_store(u, p)]
    /\ UNCHANGED <<user_id, psk_store, exchange_keys, orphans, pcf, call>>

keep_stores ==
    UNCHANGED <<user_id, stream_address, author_identifier, cursor_store, psk_store,
                exchange_keys, spongos_store, orphans, pcf, call>>

\* transport.recv_message(addr) resolves: a message at the address is a conflict
recv_message_resolves_unchecked(u) ==
    /\ ~Idle(u)
    /\ LET p == Unwrapped(pending[u])
       IN /\ p.stage = "recv"
          /\ pending' = [pending EXCEPT ![u] = Some([p EXCEPT !.stage = "send"])]
          /\ last' = Last(u, p.op, "send", Some(p.addr), FALSE)
    /\ keep_stores
    /\ UNCHANGED transport
recv_message_resolves(u) ==
    /\ ~Idle(u)
    /\ LET p == Unwrapped(pending[u])
       IN /\ p.stage = "recv"
          /\ IF map_contains(transport, p.addr)
             THEN /\ pending' = [pending EXCEPT ![u] = None]
                  /\ last' = Last(u, p.op, "err:AddressConflict", Some(p.addr), FALSE)
             ELSE /\ pending' = [pending EXCEPT ![u] = Some([p EXCEPT !.stage = "send"])]
                  /\ last' = Last(u, p.op, "send", Some(p.addr), FALSE)
    /\ keep_stores
    /\ UNCHANGED transport

\* Transport::send_message
transport_send(t, addr, msg) == map_insert(t, addr, msg)

\* transport.send_message(addr, msg) resolves successfully
send_message_resolves_overwrites(u) ==
    /\ ~Idle(u)
    /\ LET p == Unwrapped(pending[u])
       IN /\ p.stage = "send"
          /\ transport' = transport_send(transport, p.addr, p.msg)
          /\ commit_stores(u, p)
          /\ last' = Last(u, p.op, "ok", Some(p.addr), FALSE)
    /\ pending' = [pending EXCEPT ![u] = None]
send_message_resolves(u) ==
    /\ ~Idle(u)
    /\ LET p == Unwrapped(pending[u])
       IN /\ p.stage = "send"
          /\ ~map_contains(transport, p.addr)
          /\ transport' = transport_send(transport, p.addr, p.msg)
          /\ commit_stores(u, p)
          /\ last' = Last(u, p.op, "ok", Some(p.addr), FALSE)
    /\ pending' = [pending EXCEPT ![u] = None]

\* transport.send_message(addr, msg) resolves with an error
send_message_fails_commits(u) ==
    /\ ~Idle(u)
    /\ LET p == Unwrapped(pending[u])
       IN /\ p.stage = "send"
          /\ last' = Last(u, p.op, "err:Transport", Some(p.addr), FALSE)
          /\ commit_stores(u, p)
    /\ pending' = [pending EXCEPT ![u] = None]
    /\ UNCHANGED transport
send_message_fails(u) ==
    /\ ~Idle(u)
    /\ LET p == Unwrapped(pending[u])
       IN /\ p.stage = "send"
          /\ last' = Last(u, p.op, "err:Transport", Some(p.addr), FALSE)
    /\ pending' = [pending EXCEPT ![u] = None]
    /\ keep_stores
    /\ UNCHANGED transport

\* the caller drops the future of a send suspended at a transport await
drop_future(u) ==
    /\ ~Idle(u)
    /\ last' = Last(u, Unwrapped(pending[u]).op, "dropped", Some(Unwrapped(pending[u]).addr), FALSE)
    /\ pending' = [pending EXCEPT ![u] = None]
    /\ keep_stores
    /\ UNCHANGED transport

(***************************************************************************)
(* Receive path.                                                           *)
(***************************************************************************)
\* PreparsedMessage::unwrap of each content kind: TRUE when decryption and
\* verification succeed against the Spongos the receiver joins
announcement_unwrap_ok(m) == m.sig = m.content.subject
subscription_unwrap_ok(m, linked_msg_spongos, user_ke_pk) ==
    /\ m.parent = Some(linked_msg_spongos)
    /\ m.content.to = user_ke_pk
    /\ m.sig = m.content.subject
unsubscription_unwrap_ok(m, linked_msg_spongos) ==
    /\ m.parent = Some(linked_msg_spongos)
    /\ m.sig = m.content.subject
keyload_unwrap_ok_unlisted(m, announcement_spongos, uid, author_id, psks) ==
    /\ m.parent = Some(announcement_spongos)
    /\ m.sig = author_id
keyload_unwrap_ok(m, announcement_spongos, uid, author_id, psks) ==
    /\ m.parent = Some(announcement_spongos)
    /\ \/ IsSome(uid) /\ \E s \in m.content.subs : identifier_of(s) = to_identifier(Unwrapped(uid))
       \/ \E k \in m.content.psks : map_contains(psks, k)
    /\ m.sig = author_id
signed_packet_unwrap_ok_unlinked(m, linked_msg_spongos) == m.sig = m.publisher
signed_packet_unwrap_ok(m, linked_msg_spongos) ==
    /\ m.parent = Some(linked_msg_spongos)
    /\ m.sig = m.publisher
tagged_packet_unwrap_ok(m, linked_msg_spongos) ==
    /\ m.parent = Some(linked_msg_spongos)
    /\ m.sig = "mac"

\* the Spongos an unwrap leaves: the joined Spongos continued by the message
unwrap_spongos(m, joined) == Spongos(joined, m.kind, m.publisher, m.content)

\* "we must update the cursor of the publisher before handling the message"
track_publisher_skips(cs, m) == cs
\* cursor tracking that counts the deliveries of a tracked publisher
track_publisher_counts(cs, m) ==
    map_insert(cs, m.publisher,
               IF is_cursor_tracked(cs, m.publisher) THEN cs[m.publisher] + 1 ELSE m.seq)
track_publisher(cs, m) == insert_cursor(cs, m.publisher, m.seq)
track_announcer_skips(cs, m) == cs
track_announcer(cs, m) == insert_cursor(cs, m.publisher, INIT_MESSAGE_NUM)

\* "Store spongos": spongos_store.insert(address.relative(), spongos)
store_spongos_skips(ss, address, spongos) == ss
store_spongos_aliased(ss, address, spongos) ==
    LET stored == map_insert(ss, relative(address), spongos)
    IN [k \in DOMAIN stored |-> IF Some(stored[k]) = spongos.parent THEN spongos ELSE stored[k]]
store_spongos(ss, address, spongos) == map_insert(ss, relative(address), spongos)

\* User::remove_subscriber
remove_subscriber_cursor(cs, id) == cursor_remove(cs, id)
remove_subscriber_key_keeps(keys, id) == keys
remove_subscriber_key(keys, id) == map_remove(keys, id)

\* a handler returns: the outcome and the stores of the user after it
handled(u, op, out, address, corrupt, sa, ai, cs, ek, ss) ==
    /\ last' = Last(u, op, out, Some(address), corrupt)
    /\ stream_address' = [stream_address EXCEPT ![u] = sa]
    /\ author_identifier' = [author_identifier EXCEPT ![u] = ai]
    /\ cursor_store' = [cursor_store EXCEPT ![u] = cs]
    /\ exchange_keys' = [exchange_keys EXCEPT ![u] = ek]
    /\ spongos_store' = [spongos_store EXCEPT ![u] = ss]
    /\ UNCHANGED <<user_id, psk_store, transport, pending>>

handle_announcement_authorless(u, address, m, corrupt) ==
    LET sa == stream_address[u]
        ai == author_identifier[u]
        cs == cursor_store[u]
        ek == exchange_keys[u]
        ss == spongos_store[u]
        op == "handle_announcement"
        cs1 == track_announcer(cs, m)
        author_id == m.content.subject
        author_ke_pk == m.content.ke
    IN IF IsSome(sa) THEN handled(u, op, "err:AlreadyInStream", address, corrupt, sa, ai, cs, ek, ss)
       ELSE IF ~announcement_unwrap_ok(m)
            THEN handled(u, op, "err:Unwrap", address, corrupt, sa, ai, cs1, ek, ss)
       ELSE handled(u, op, "ok", address, corrupt, Some(address), ai, cs1,
                    map_insert(ek, author_id, author_ke_pk),
                    store_spongos(ss, address, unwrap_spongos(m, None)))
handle_announcement_rebinds(u, address, m, corrupt) ==
    LET sa == stream_address[u]
        ai == author_identifier[u]
        cs == cursor_store[u]
        ek == exchange_keys[u]
        ss == spongos_store[u]
        op == "handle_announcement"
        cs1 == track_announcer(cs, m)
        author_id == m.content.subject
        author_ke_pk == m.content.ke
    IN IF ~announcement_unwrap_ok(m)
       THEN handled(u, op, "err:Unwrap", address, corrupt, sa, ai, cs1, ek, ss)
       ELSE handled(u, op, "ok", address, corrupt, Some(address), Some(author_id), cs1,
                    map_insert(ek, author_id, author_ke_pk),
                    store_spongos(ss, address, unwrap_spongos(m, None)))
handle_announcement(u, address, m, corrupt) ==
    LET sa == stream_address[u]
        ai == author_identifier[u]
        cs == cursor_store[u]
        ek == exchange_keys[u]
        ss == spongos_store[u]
        op == "handle_announcement"
        cs1 == track_announcer(cs, m)
        author_id == m.content.subject
        author_ke_pk == m.content.ke
    IN IF IsSome(sa) THEN handled(u, op, "err:AlreadyInStream", address, corrupt, sa, ai, cs, ek, ss)
       ELSE IF ~announcement_unwrap_ok(m)
            THEN handled(u, op, "err:Unwrap", address, corrupt, sa, ai, cs1, ek, ss)
       ELSE handled(u, op, "ok", address, corrupt, Some(address), Some(author_id), cs1,
                    map_insert(ek, author_id, author_ke_pk),
                    store_spongos(ss, address, unwrap_spongos(m, None)))

handle_subscription_tracks(u, address, m, corrupt) ==
    LET sa == stream_address[u]
        ai == author_identifier[u]
        cs == cursor_store[u]
        ek == exchange_keys[u]
        ss == spongos_store[u]
        op == "handle_subscription"
    IN IF ~IsSome(m.link) THEN handled(u, op, "err:NoLink", address, corrupt, sa, ai, cs, ek, ss)
       ELSE IF ~map_contains(ss, Unwrapped(m.link))
            THEN handled(u, op, "orphan", address, corrupt, sa, ai, cs, ek, ss)
       ELSE IF ~IsSome(user_id[u])
            THEN handled(u, op, "err:NoIdentity", address, corrupt, sa, ai, cs, ek, ss)
       ELSE IF ~subscription_unwrap_ok(m, ss[Unwrapped(m.link)],
                                       ke_pk(to_identifier(Unwrapped(user_id[u]))))
            THEN handled(u, op, "err:Unwrap", address, corrupt, sa, ai, cs, ek, ss)
       ELSE handled(u, op, "ok", address, corrupt, sa, ai, track_publisher(cs, m),
                    map_insert(ek, m.content.subject, m.content.ke), ss)
handle_subscription(u, address, m, corrupt) ==
    LET sa == stream_address[u]
        ai == author_identifier[u]
        cs == cursor_store[u]
        ek == exchange_keys[u]
        ss == spongos_store[u]
        op == "handle_subscription"
    IN IF ~IsSome(m.link) THEN handled(u, op, "err:NoLink", address, corrupt, sa, ai, cs, ek, ss)
       ELSE IF ~map_contains(ss, Unwrapped(m.link))
            THEN handled(u, op, "orphan", address, corrupt, sa, ai, cs, ek, ss)
       ELSE IF ~IsSome(user_id[u])
            THEN handled(u, op, "err:NoIdentity", address, corrupt, sa, ai, cs, ek, ss)
       ELSE IF ~subscription_unwrap_ok(m, ss[Unwrapped(m.link)],
                                       ke_pk(to_identifier(Unwrapped(user_id[u]))))
            THEN handled(u, op, "err:Unwrap", address, corrupt, sa, ai, cs, ek, ss)
       ELSE handled(u, op, "ok", address, corrupt, sa, ai, cs,
                    map_insert(ek, m.content.subject, m.content.ke), ss)

handle_unsubscription(u, address, m, corrupt) ==
    LET sa == stream_address[u]
        ai == author_identifier[u]
        cs == cursor_store[u]
        ek == exchange_keys[u]
        ss == spongos_store[u]
        op == "handle_unsubscription"
    IN IF ~IsSome(m.link) THEN handled(u, op, "err:NoLink", address, corrupt, sa, ai, cs, ek, ss)
       ELSE IF ~map_contains(ss, Unwrapped(m.link))
            THEN handled(u, op, "orphan", address, corrupt, sa, ai, cs, ek, ss)
       ELSE IF ~unsubscription_unwrap_ok(m, ss[Unwrapped(m.link)])
            THEN handled(u, op, "err:Unwrap", address, corrupt, sa, ai, cs, ek, ss)
       ELSE handled(u, op, "ok", address, corrupt, sa, ai,
                    remove_subscriber_cursor(cs, m.content.subject),
                    remove_subscriber_key(ek, m.content.subject),
                    store_spongos(ss, address,
                                  unwrap_spongos(m, Some(ss[Unwrapped(m.link)]))))

handle_keyload_checks_first(u, address, m, corrupt) ==
    LET sa == stream_address[u]
        ai == author_identifier[u]
        cs == cursor_store[u]
        ek == exchange_keys[u]
        ss == spongos_store[u]
        op == "handle_keyload"
        cs1 == track_publisher(cs, m)
    IN IF ~IsSome(ai) THEN handled(u, op, "err:NoStream", address, corrupt, sa, ai, cs, ek, ss)
       ELSE IF ~IsSome(sa) THEN handled(u, op, "err:NoStream", address, corrupt, sa, ai, cs, ek, ss)
       ELSE IF ~map_contains(ss, relative(Unwrapped(sa)))
            THEN handled(u, op, "panic", address, corrupt, sa, ai, cs1, ek, ss)
       ELSE IF ~keyload_unwrap_ok(m, ss[relative(Unwrapped(sa))], user_id[u], Unwrapped(ai),
                                  psk_store[u])
            THEN handled(u, op, "err:Unwrap", address, corrupt, sa, ai, cs1, ek, ss)
       ELSE handled(u, op, "ok", address, corrupt, sa, ai,
                    store_subscriber_cursors(cs1, m.content.subs), ek,
                    store_spongos(ss, address,
                                  unwrap_spongos(m, Some(ss[relative(Unwrapped(sa))]))))
handle_keyload(u, address, m, corrupt) ==
    LET sa == stream_address[u]
        ai == author_identifier[u]
        cs == cursor_store[u]
        ek == exchange_keys[u]
        ss == spongos_store[u]
        op == "handle_keyload"
        cs1 == track_publisher(cs, m)
    IN IF ~IsSome(ai) THEN handled(u, op, "err:NoStream", address, corrupt, sa, ai, cs1, ek, ss)
       ELSE IF ~IsSome(sa) THEN handled(u, op, "err:NoStream", address, corrupt, sa, ai, cs1, ek, ss)
       ELSE IF ~map_contains(ss, relative(Unwrapped(sa)))
            THEN handled(u, op, "panic", address, corrupt, sa, ai, cs1, ek, ss)
       ELSE IF ~keyload_unwrap_ok(m, ss[relative(Unwrapped(sa))], user_id[u], Unwrapped(ai),
                                  psk_store[u])
            THEN handled(u, op, "err:Unwrap", address, corrupt, sa, ai, cs1, ek, ss)
       ELSE handled(u, op, "ok", address, corrupt, sa, ai,
                    store_subscriber_cursors(cs1, m.content.subs), ek,
                    store_spongos(ss, address,
                                  unwrap_spongos(m, Some(ss[relative(Unwrapped(sa))]))))

handle_signed_packet_unstored(u, address, m, corrupt) ==
    LET sa == stream_address[u]
        ai == author_identifier[u]
        cs == cursor_store[u]
        ek == exchange_keys[u]
        ss == spongos_store[u]
        op == "handle_signed_packet"
        cs1 == track_publisher(cs, m)
    IN IF ~IsSome(m.link) THEN handled(u, op, "err:NoLink", address, corrupt, sa, ai, cs1, ek, ss)
       ELSE IF ~map_contains(ss, Unwrapped(m.link))
            THEN handled(u, op, "orphan", address, corrupt, sa, ai, cs1, ek, ss)
       ELSE IF ~signed_packet_unwrap_ok(m, ss[Unwrapped(m.link)])
            THEN handled(u, op, "err:Unwrap", address, corrupt, sa, ai, cs1, ek, ss)
       ELSE handled(u, op, "ok", address, corrupt, sa, ai, cs1, ek, ss)
handle_signed_packet(u, address, m, corrupt) ==
    LET sa == stream_address[u]
        ai == author_identifier[u]
        cs == cursor_store[u]
        ek == exchange_keys[u]
        ss == spongos_store[u]
        op == "handle_signed_packet"
        cs1 == track_publisher(cs, m)
    IN IF ~IsSome(m.link) THEN handled(u, op, "err:NoLink", address, corrupt, sa, ai, cs1, ek, ss)
       ELSE IF ~map_contains(ss, Unwrapped(m.link))
            THEN handled(u, op, "orphan", address, corrupt, sa, ai, cs1, ek, ss)
       ELSE IF ~signed_packet_unwrap_ok(m, ss[Unwrapped(m.link)])
            THEN handled(u, op, "err:Unwrap", address, corrupt, sa, ai, cs1, ek, ss)
       ELSE handled(u, op, "ok", address, corrupt, sa, ai, cs1, ek,
                    store_spongos(ss, address,
                                  unwrap_spongos(m, Some(ss[Unwrapped(m.link)]))))

handle_tagged_packet(u, address, m, corrupt) ==
    LET sa == stream_address[u]
        ai == author_identifier[u]
        cs == cursor_store[u]
        ek == exchange_keys[u]
        ss == spongos_store[u]
        op == "handle_tagged_packet"
        cs1 == track_publisher(cs, m)
    IN IF ~IsSome(m.link) THEN handled(u, op, "err:NoLink", address, corrupt, sa, ai, cs1, ek, ss)
       ELSE IF ~map_contains(ss, Unwrapped(m.link))
            THEN handled(u, op, "orphan", address, corrupt, sa, ai, cs1, ek, ss)
       ELSE IF ~tagged_packet_unwrap_ok(m, ss[Unwrapped(m.link)])
            THEN handled(u, op, "err:Unwrap", address, corrupt, sa, ai, cs1, ek, ss)
       ELSE handled(u, op, "ok", address, corrupt, sa, ai, cs1, ek,
                    store_spongos(ss, address,
                                  unwrap_spongos(m, Some(ss[Unwrapped(m.link)]))))

\* User::handle_message: dispatch on the message type of the parsed header
handle_message_defaults(u, address, m, corrupt) ==
    CASE m.kind = "announcement" -> handle_announcement(u, address, m, corrupt)
      [] m.kind = "subscription" -> handle_subscription(u, address, m, corrupt)
      [] m.kind = "unsubscription" -> handle_unsubscription(u, address, m, corrupt)
      [] m.kind = "keyload" -> handle_keyload(u, address, m, corrupt)
      [] m.kind = "signed_packet" -> handle_signed_packet(u, address, m, corrupt)
      [] OTHER -> handle_tagged_packet(u, address, m, corrupt)
handle_message(u, address, m, corrupt) ==
    CASE m.kind = "announcement" -> handle_announcement(u, address, m, corrupt)
      [] m.kind = "subscription" -> handle_subscription(u, address, m, corrupt)
      [] m.kind = "unsubscription" -> handle_unsubscription(u, address, m, corrupt)
      [] m.kind = "keyload" -> handle_keyload(u, address, m, corrupt)
      [] m.kind = "signed_packet" -> handle_signed_packet(u, address, m, corrupt)
      [] m.kind = "tagged_packet" -> handle_tagged_packet(u, address, m, corrupt)
      [] OTHER -> handled(u, "handle_message", "err:UnknownMessageType", address, corrupt,
                          stream_address[u], author_identifier[u], cursor_store[u],
                          exchange_keys[u], spongos_store[u])

\* what the transport hands over for an address: the stored message, or the
\* stored message with its payload damaged (the header still parses)
delivered(address, corrupt) ==
    IF corrupt THEN [transport[address] EXCEPT !.sig = "bad"] ELSE transport[address]

\* User::receive_message
receive_message(u, address, corrupt) ==
    /\ Idle(u)
    /\ map_contains(transport, address)
    /\ handle_message(u, address, delivered(address, corrupt), corrupt)
    /\ UNCHANGED <<orphans, pcf, call>>

\* what the transport hands over when the message type in the header is none
\* of the six message_types
delivered_unknown(address) == [transport[address] EXCEPT !.kind = "unknown"]

\* User::receive_message of a message of an unknown type
receive_unknown_message(u, address) ==
    /\ Idle(u)
    /\ map_contains(transport, address)
    /\ handle_message(u, address, delivered_unknown(address), FALSE)
    /\ UNCHANGED <<orphans, pcf, call>>

\* User::receive_message by a caller that keeps the addresses of the
\* Message::orphan it was handed, to retry them later
receive_message_keeping_orphans(u, address, corrupt) ==
    /\ Idle(u)
    /\ map_contains(transport, address)
    /\ handle_message(u, address, delivered(address, corrupt), corrupt)
    /\ orphans' = [orphans EXCEPT ![u] = IF last'.out = "orphan" THEN @ \cup {address} ELSE @]
    /\ UNCHANGED <<pcf, call>>

\* User::add_subscriber: the exchange key is derived from the identifier
add_subscriber_keyless(u, subscriber) ==
    /\ Idle(u)
    /\ cursor_store' = [cursor_store EXCEPT ![u] = insert_cursor(@, subscriber, INIT_MESSAGE_NUM)]
    /\ last' = Last(u, "add_subscriber", "ok", None, FALSE)
    /\ UNCHANGED <<user_id, stream_address, author_identifier, exchange_keys, psk_store,
                   spongos_store, transport, pending, orphans, pcf, call>>
add_subscriber(u, subscriber) ==
    /\ Idle(u)
    /\ exchange_keys' = [exchange_keys EXCEPT ![u] = map_insert(@, subscriber, ke_pk(subscriber))]
    /\ last' = Last(u, "add_subscriber", "ok", None, FALSE)
    /\ UNCHANGED <<user_id, stream_address, author_identifier, cursor_store, psk_store,
                   spongos_store, transport, pending, orphans, pcf, call>>

\* User::subscribers
subscribers(u) == DOMAIN exchange_keys[u]

\* User::remove_subscriber
remove_subscriber(u, id) ==
    /\ Idle(u)
    /\ cursor_store' = [cursor_store EXCEPT ![u] = remove_subscriber_cursor(@, id)]
    /\ exchange_keys' = [exchange_keys EXCEPT ![u] = remove_subscriber_key(@, id)]
    /\ last' = Last(u, "remove_subscriber", "ok", None, FALSE)
    /\ UNCHANGED <<user_id, stream_address, author_identifier, psk_store,
                   spongos_store, transport, pending, orphans, pcf, call>>

Next ==
    \/ \E u \in Authors, idx \in StreamIdxs : create_stream(u, idx)
    \/ \E u \in Users : \E link_to \in LinkChoices(u) : subscribe(u, link_to)
    \/ \E u \in Users : \E link_to \in LinkChoices(u) : unsubscribe(u, link_to)
    \/ \E u \in Users : \E link_to \in LinkChoices(u) : \E k \in KeyloadInputs :
           send_keyload(u, link_to, k[1], k[2])
    \/ \E u \in Users : \E link_to \in LinkChoices(u) : send_signed_packet(u, link_to, Payload)
    \/ \E u \in Users : \E link_to \in LinkChoices(u) : send_tagged_packet(u, link_to, Payload)
    \/ \E u \in Users : recv_message_resolves(u)
    \/ \E u \in Users : send_message_resolves(u)
    \/ \E u \in Users : send_message_fails(u)
    \/ \E u \in Users : drop_future(u)
    \/ \E u \in Users : \E address \in DOMAIN transport : \E corrupt \in BOOLEAN :
           receive_message(u, address, corrupt)

Spec == Init /\ [][Next]_vars

\* the same users with callers that keep their orphans, over a transport that
\* delivers every message intact, fails no send and has no send future dropped
NextRetry ==
    \/ \E u \in Authors, idx \in StreamIdxs : create_stream(u, idx)
    \/ \E u \in Users : \E link_to \in LinkChoices(u) : subscribe(u, link_to)
    \/ \E u \in Users : \E link_to \in LinkChoices(u) : unsubscribe(u, link_to)
    \/ \E u \in Users : \E link_to \in LinkChoices(u) : \E k \in KeyloadInputs :
           send_keyload(u, link_to, k[1], k[2])
    \/ \E u \in Users : \E link_to \in LinkChoices(u) : send_signed_packet(u, link_to, Payload)
    \/ \E u \in Users : \E link_to \in LinkChoices(u) : send_tagged_packet(u, link_to, Payload)
    \/ \E u \in Users : recv_message_resolves(u)
    \/ \E u \in Users : send_message_resolves(u)
    \/ \E u \in Users : \E address \in DOMAIN transport :
           receive_message_keeping_orphans(u, address, FALSE)

SpecRetry == Init /\ [][NextRetry]_vars

\* an author publishing keyloads and packets over a transport that fails no
\* send and hands a message over intact, damaged or under an unknown type
NextUnknown ==
    \/ \E u \in Authors, idx \in StreamIdxs : create_stream(u, idx)
    \/ \E u \in Users : \E link_to \in LinkChoices(u) : \E k \in KeyloadInputs :
           send_keyload(u, link_to, k[1], k[2])
    \/ \E u \in Users : \E link_to \in LinkChoices(u) : send_signed_packet(u, link_to, Payload)
    \/ \E u \in Users : \E link_to \in LinkChoices(u) : send_tagged_packet(u, link_to, Payload)
    \/ \E u \in Users : recv_message_resolves(u)
    \/ \E u \in Users : send_message_resolves(u)
    \/ \E u \in Users : \E address \in DOMAIN transport : \E corrupt \in BOOLEAN :
           receive_message(u, address, corrupt)
    \/ \E u \in Users : \E address \in DOMAIN transport : receive_unknown_message(u, address)

SpecUnknown == Init /\ [][NextUnknown]_vars

\* the subscribers an author adds and removes by hand
Subscribers == {"B"}

\* the link a sender of this specification passes: the announcement of its
\* stream, or an address nobody knows while it is in no stream
StreamLinks(u) ==
    IF IsSome(stream_address[u]) THEN {relative(Unwrapped(stream_address[u]))}
    ELSE {UnknownLink}

\* the users with an author that also manages its subscribers by hand; every
\* delivery is intact and every send goes through
NextSubscribers ==
    \/ \E u \in Authors, idx \in StreamIdxs : create_stream(u, idx)
    \/ \E u \in Users : \E link_to \in StreamLinks(u) : subscribe(u, link_to)
    \/ \E u \in Users : \E link_to \in StreamLinks(u) : unsubscribe(u, link_to)
    \/ \E u \in Users : \E link_to \in StreamLinks(u) : \E k \in KeyloadInputs :
           send_keyload(u, link_to, k[1], k[2])
    \/ \E u \in Users : recv_message_resolves(u)
    \/ \E u \in Users : send_message_resolves(u)
    \/ \E u \in Users : \E address \in DOMAIN transport : receive_message(u, address, FALSE)
    \/ \E u \in Authors, id \in Subscribers : add_subscriber(u, id)
    \/ \E u \in Authors, id \in Subscribers : remove_subscriber(u, id)

SpecSubscribers == Init /\ [][NextSubscribers]_vars

(***************************************************************************)
(* The PCF on its own: construction, Wrap and Unwrap of the frame header.  *)
(***************************************************************************)
\* the u32 values handed to the constructors: around 2^16, 2^22, 2^24, 2^31
\* and the ends of the range
FrameNums ==
    {u32_of(n) : n \in {0, 1, 2, 255, 256, 65535, 65536, 65537, 4194302, 4194303,
                        4194304, 4194305, 8388608, 16777215, 16777216, 2147483647}}
    \cup {u32(32768, 0), u32(65535, 65534), u32(65535, 65535), u32(65472, 0), u32(64, 65535)}
FrameTypes == {INIT_PCF_ID, INTER_PCF_ID, FINAL_PCF_ID}
\* the 3-byte wire fields handed to Unwrap
WireFields == {<<b1, b2, b3>> : b1 \in {0, 63, 64, 255}, b2 \in {0, 255}, b3 \in {0, 255}}

\* the PCF the program holds is pcf; nothing else moves
PcfStep(fn, arg, ret, after) ==
    /\ pcf' = after
    /\ call' = Call(fn, arg, ret)
    /\ UNCHANGED <<user_id, stream_address, author_identifier, cursor_store, psk_store,
                   exchange_keys, spongos_store, transport, pending, last, orphans>>

\* PCF::new(frame_type, payload_frame_num, content)
PCF_new(frame_type, payload_frame_num) ==
    LET num == try_from(payload_frame_num)
    IN IF IsOk(num)
       THEN PcfStep("PCF::new", payload_frame_num, Ok(PCF(frame_type, Value(num))),
                    PCF(frame_type, Value(num)))
       ELSE PcfStep("PCF::new", payload_frame_num, num, pcf)

\* PCF::new_init_frame / new_inter_frame / new_final_frame
PCF_new_frame(frame) == PcfStep("new_frame", frame.frame_type, Ok(frame), frame)

\* PCF::with_payload_frame_num
with_payload_frame_num(payload_frame_num) ==
    LET num == try_from(payload_frame_num)
    IN IF IsOk(num)
       THEN PcfStep("with_payload_frame_num", payload_frame_num, Ok(<<>>),
                    [pcf EXCEPT !.payload_frame_num = Value(num)])
       ELSE PcfStep("with_payload_frame_num", payload_frame_num, num, pcf)

\* PayloadFrameNum::try_from(u32), the value being dropped
PayloadFrameNum_try_from(frame_num) ==
    PcfStep("try_from", frame_num, try_from(frame_num), pcf)

\* ContentWrap<PCF<Content>>: absorb(Uint8(frame_type)), skip(payload_frame_num);
\* ret is what the two commands put on the stream
pcf_wrap ==
    PcfStep("wrap", pcf, Ok(<<pcf.frame_type>> \o NBytes_from(pcf.payload_frame_num)), pcf)

\* ContentUnwrap<PCF<Content>> of the stream <<frame_type>> \o nbytes: the
\* frame number is assigned by skip, the frame type after the content was
\* unwrapped, which content_ok says succeeded
pcf_unwrap(frame_type, nbytes, content_ok) ==
    LET skipped == [pcf EXCEPT !.payload_frame_num = PayloadFrameNum_from(nbytes)]
    IN IF content_ok
       THEN PcfStep("unwrap", <<frame_type>> \o nbytes, Ok(<<>>),
                    [skipped EXCEPT !.frame_type = frame_type])
       ELSE PcfStep("unwrap", <<frame_type>> \o nbytes, Err("Content"), skipped)

NextPCF ==
    \/ \E frame_type \in FrameTypes, n \in FrameNums : PCF_new(frame_type, n)
    \/ \E frame \in {new_init_frame, new_inter_frame, new_final_frame} : PCF_new_frame(frame)
    \/ \E n \in FrameNums : with_payload_frame_num(n)
    \/ \E n \in FrameNums : PayloadFrameNum_try_from(n)
    \/ pcf_wrap
    \/ \E frame_type \in FrameTypes, nbytes \in WireFields, content_ok \in BOOLEAN :
          pcf_unwrap(frame_type, nbytes, content_ok)

SpecPCF == Init /\ [][NextPCF]_vars

(***************************************************************************)
(* Backup and restore: SizeOf, Wrap and Unwrap of State.  A byte stream is *)
(* the sequence of the items put on it; an item is its type and its value. *)
(***************************************************************************)
Item(type, value) == <<type, value>>
Maybe(type, option) == <<"Maybe", <<type, option>>>>
Size(n) == <<"Size", n>>

\* the bytes a Size takes: one for the count of the bytes that follow
SizeLen(n) == IF n = 0 THEN 1 ELSE IF n < 256 THEN 2 ELSE 3
\* the bytes a value of a type takes on the stream
TypeLen(type) ==
    CASE type = "Identity" -> 65
      [] type = "Address" -> 52
      [] type = "Identifier" -> 33
      [] type = "MsgId" -> 12
      [] type = "Spongos" -> 200
      [] type = "PublicKey" -> 32
      [] type = "PskId" -> 16
      [] type = "Psk" -> 32
      [] type = "Mac" -> 32
      [] type = "Uint8" -> 1
      [] type = "NBytes3" -> 3
      [] type = "Signature" -> 64
      [] type = "DIDSize" -> 32
      [] type = "HDF" -> 80
MaybeLen(type, option) == 1 + (IF IsSome(option) THEN TypeLen(type) ELSE 0)
ItemLen(item) ==
    CASE item[1] = "Maybe" -> MaybeLen(item[2][1], item[2][2])
      [] item[1] = "Size" -> SizeLen(item[2])
      [] item[1] = "Bytes" -> SizeLen(item[2][1]) + item[2][1]
      [] OTHER -> TypeLen(item[1])

RECURSIVE SumSeq(_)
SumSeq(q) == IF q = <<>> THEN 0 ELSE q[1] + SumSeq(Tail(q))

\* the orders in which a collection may hand out its keys
Orders(S) == {q \in [1..Cardinality(S) -> S] : \A i, j \in DOMAIN q : q[i] = q[j] => i = j}
IterationOrders(st) ==
    [spongos_store : Orders(DOMAIN st.spongos_store),
     cursor_store : Orders(DOMAIN st.cursor_store),
     exchange_keys : Orders(DOMAIN st.exchange_keys),
     psk_store : Orders(DOMAIN st.psk_store)]

\* the State of a user as a record
state_of(u) ==
    [user_id |-> user_id[u], stream_address |-> stream_address[u],
     author_identifier |-> author_identifier[u], cursor_store |-> cursor_store[u],
     psk_store |-> psk_store[u], exchange_keys |-> exchange_keys[u],
     spongos_store |-> spongos_store[u]]
\* State::default()
State_default ==
    [user_id |-> None, stream_address |-> None, author_identifier |-> None,
     cursor_store |-> EmptyMap, psk_store |-> EmptyMap, exchange_keys |-> EmptyMap,
     spongos_store |-> EmptyMap]

\* ContentSizeof<State>: the sizes the commands add up, in their order
State_sizeof(st, order) ==
    <<MaybeLen("Identity", st.user_id),
      MaybeLen("Address", st.stream_address),
      MaybeLen("Identifier", st.author_identifier)>>
    \o <<SizeLen(Cardinality(DOMAIN st.spongos_store))>>
    \o [i \in 1..Len(order.spongos_store) |-> TypeLen("MsgId") + TypeLen("Spongos")]
    \o <<SizeLen(Cardinality(DOMAIN st.cursor_store))>>
    \o [i \in 1..Len(order.cursor_store) |->
           TypeLen("Identifier") + SizeLen(st.cursor_store[order.cursor_store[i]])]
    \o <<SizeLen(Cardinality(DOMAIN st.exchange_keys))>>
    \o [i \in 1..Len(order.exchange_keys) |-> TypeLen("Identifier") + TypeLen("PublicKey")]
    \o <<SizeLen(Cardinality(DOMAIN st.psk_store))>>
    \o [i \in 1..Len(order.psk_store) |-> TypeLen("PskId") + TypeLen("Psk")]
    \o <<TypeLen("Mac")>>

\* "for (key, value) in map { mask(key).mask(value) }"
mask_entries(map, order, key_type, value_type) ==
    [i \in 1..(2 * Len(order)) |->
        IF i % 2 = 1 THEN Item(key_type, order[(i + 1) \div 2])
        ELSE IF value_type = "Size" THEN Size(map[order[i \div 2]])
        ELSE Item(value_type, map[order[i \div 2]])]

\* commit().squeeze(Mac::new(32)): the MAC of what the Spongos absorbed
squeeze_mac(key, masked) == Item("Mac", <<key, masked>>)

\* ContentWrap<State> after absorb(External(key)): the items masked, then the MAC
State_wrap(key, st, order) ==
    LET masked ==
            <<Maybe("Identity", st.user_id),
              Maybe("Address", st.stream_address),
              Maybe("Identifier", st.author_identifier)>>
            \o <<Size(Cardinality(DOMAIN st.spongos_store))>>
            \o mask_entries(st.spongos_store, order.spongos_store, "MsgId", "Spongos")
            \o <<Size(Cardinality(DOMAIN st.cursor_store))>>
            \o mask_entries(st.cursor_store, order.cursor_store, "Identifier", "Size")
            \o <<Size(Cardinality(DOMAIN st.exchange_keys))>>
            \o mask_entries(st.exchange_keys, order.exchange_keys, "Identifier", "PublicKey")
            \o <<Size(Cardinality(DOMAIN st.psk_store))>>
            \o mask_entries(st.psk_store, order.psk_store, "PskId", "Psk")
    IN masked \o <<squeeze_mac(key, masked)>>

\* SpongosRng::new(pwd).gen()
key_of_any(pwd) == <<"key", "">>
key_of(pwd) == <<"key", pwd>>
Passwords == {"pwd1", "pwd2"}

\* the bytes of a backup: the items, masked under the key, and their length
Backup(key, items) ==
    [key |-> key, items |-> items, len |-> SumSeq([i \in DOMAIN items |-> ItemLen(items[i])])]

\* "for _ in 0..amount { mask(&mut key).mask(&mut value); map.insert(key, value) }"
RECURSIVE unwrap_entries(_, _)
unwrap_entries(map, entries) ==
    IF entries = <<>> THEN map
    ELSE unwrap_entries(map_insert(map, entries[1][2], entries[2][2]), SubSeq(entries, 3, Len(entries)))
unwrap_cursors_at_init(cs, entries) ==
    [id \in {entries[i][2] : i \in {j \in DOMAIN entries : j % 2 = 1}} |-> INIT_MESSAGE_NUM]
RECURSIVE unwrap_cursors(_, _)
unwrap_cursors(cs, entries) ==
    IF entries = <<>> THEN cs
    ELSE unwrap_cursors(insert_cursor(cs, entries[1][2], entries[2][2]),
                        SubSeq(entries, 3, Len(entries)))

\* ContentUnwrap<State> after absorb(External(key)), of the bytes of a backup
State_unwrap(key, backup) ==
    IF key # backup.key THEN Err("Unwrap")
    ELSE LET items == backup.items
             at_spongos == 4
             n_spongos == items[at_spongos][2]
             at_cursors == at_spongos + 2 * n_spongos + 1
             n_cursors == items[at_cursors][2]
             at_keys == at_cursors + 2 * n_cursors + 1
             n_keys == items[at_keys][2]
             at_psks == at_keys + 2 * n_keys + 1
             n_psks == items[at_psks][2]
             at_mac == at_psks + 2 * n_psks + 1
             state ==
                 [user_id |-> items[1][2][2],
                  stream_address |-> items[2][2][2],
                  author_identifier |-> items[3][2][2],
                  spongos_store |-> unwrap_entries(State_default.spongos_store,
                                       SubSeq(items, at_spongos + 1, at_cursors - 1)),
                  cursor_store |-> unwrap_cursors(State_default.cursor_store,
                                       SubSeq(items, at_cursors + 1, at_keys - 1)),
                  exchange_keys |-> unwrap_entries(State_default.exchange_keys,
                                       SubSeq(items, at_keys + 1, at_psks - 1)),
                  psk_store |-> unwrap_entries(State_default.psk_store,
                                       SubSeq(items, at_psks + 1, at_mac - 1))]
         IN IF items[at_mac] = squeeze_mac(key, SubSeq(items, 1, at_mac - 1))
            THEN Ok(state) ELSE Err("Mac")

\* a backup or a restore was called; the users themselves are left alone
Returned(fn, arg, ret) ==
    /\ call' = Call(fn, arg, ret)
    /\ UNCHANGED <<user_id, stream_address, author_identifier, cursor_store, psk_store,
                   exchange_keys, spongos_store, transport, pending, last, orphans, pcf>>

\* User::backup, the collections handing out their entries in the given order
backup(u, pwd, order) ==
    /\ Idle(u)
    /\ LET buf_size == SumSeq(State_sizeof(state_of(u), order))
           buf == Backup(key_of(pwd), State_wrap(key_of(pwd), state_of(u), order))
       IN Returned("backup", <<u, pwd, state_of(u)>>,
                   IF buf.len > buf_size THEN Err("StreamFull")
                   ELSE IF buf.len < buf_size THEN Err("panic")
                   ELSE Ok(buf))

\* User::restore of the bytes the last backup returned
restore(pwd) ==
    /\ call.fn = "backup"
    /\ IsOk(call.ret)
    /\ Returned("restore", <<Value(call.ret), pwd>>, State_unwrap(key_of(pwd), Value(call.ret)))

(***************************************************************************)
(* DDML contexts, identities, and the unsubscription message.  A Spongos   *)
(* is the sequence of what it absorbed, joined, committed and squeezed.    *)
(***************************************************************************)
Context(spongos, stream) == [spongos |-> spongos, stream |-> stream]
Bytes(len, content) == <<"Bytes", <<len, content>>>>

\* wrap::Context: absorb puts the item on the stream, skip puts it there
\* without absorbing it, join and commit put nothing there
wrap_absorb(ctx, item) ==
    Context(Append(ctx.spongos, <<"absorb", item>>), Append(ctx.stream, item))
wrap_skip(ctx, item) == Context(ctx.spongos, Append(ctx.stream, item))
join(ctx, spongos) == Context(Append(ctx.spongos, <<"join", spongos>>), ctx.stream)
commit(ctx) == Context(Append(ctx.spongos, <<"commit">>), ctx.stream)
\* squeeze(External(hash)): the hash of what was absorbed, kept off the stream
squeeze_external(ctx) == <<"hash", ctx.spongos>>
squeezed(ctx) == Context(Append(ctx.spongos, <<"squeeze">>), ctx.stream)
\* unwrap::Context: absorb takes the next item off the stream
unwrap_absorb(ctx) ==
    Context(Append(ctx.spongos, <<"absorb", Head(ctx.stream)>>), Tail(ctx.stream))
unwrap_skip(ctx) == Context(ctx.spongos, Tail(ctx.stream))

\* UserIdentity and the Identifier in its id field
KeypairIdentity(name) == [keys |-> "Keypair", name |-> name, did |-> None]
PskIdentity(pskid) == [keys |-> "Psk", name |-> pskid, did |-> None]
DIDIdentity(name, did) == [keys |-> "DID", name |-> name, did |-> did]
id_of(identity) ==
    CASE identity.keys = "Keypair" -> <<"EdPubKey", identity.name>>
      [] identity.keys = "Psk" -> <<"PskId", identity.name>>
      [] identity.keys = "DID" -> <<"DID", identity.name>>

\* UserIdentity::get_ke_kp / get_sig_sk
get_ke_kp_of_psk(identity) == Ok(<<"x25519", identity.name>>)
get_ke_kp(identity) ==
    IF identity.keys = "Psk" THEN Err("NoSignatureKeyPair")
    ELSE Ok(<<"x25519", identity.name>>)
get_sig_sk(identity) ==
    IF identity.keys = "Psk" THEN Err("NoSignatureKeyPair")
    ELSE Ok(<<"ed25519", identity.name>>)

\* the key fragment of a DIDInfo and its length in bytes
key_fragment == Bytes(4, "frag")

\* ContentSizeof for UserIdentity: the sizes its commands add up
identity_sizeof(identity) ==
    CASE identity.keys = "Keypair" -> Ok(<<TypeLen("Uint8"), TypeLen("Signature")>>)
      [] identity.keys = "Psk" -> Err("NoSignatureKeyPair")
      [] identity.keys = "DID" ->
            Ok((IF IsSome(identity.did)
                THEN <<TypeLen("Uint8"), TypeLen("DIDSize"), ItemLen(key_fragment)>>
                ELSE <<>>)
               \o <<ItemLen(Bytes(TypeLen("Signature"), <<>>))>>)

\* ContentSign for UserIdentity
identity_sign(identity, ctx) ==
    CASE identity.keys = "Keypair" ->
            LET tagged == commit(wrap_absorb(ctx, Item("Uint8", 0)))
                hash == squeeze_external(tagged)
            IN Ok(wrap_skip(squeezed(tagged), Item("Signature", <<id_of(identity), hash>>)))
      [] identity.keys = "Psk" -> Err("NoSignatureKeyPair")
      [] identity.keys = "DID" ->
            LET tagged == IF IsSome(identity.did)
                          THEN wrap_absorb(wrap_absorb(wrap_absorb(ctx, Item("Uint8", 1)),
                                               Item("DIDSize", Unwrapped(identity.did))),
                                           key_fragment)
                          ELSE ctx
                committed == commit(tagged)
                hash == squeeze_external(committed)
            IN IF IsSome(identity.did)
               THEN Ok(wrap_absorb(squeezed(committed),
                                   Bytes(TypeLen("Signature"), <<id_of(identity), hash>>)))
               ELSE Err("SignatureFailure")

\* ContentVerify for UserIdentity, of the identity whose id field is id, in a
\* build with or without the "did" feature
identity_verify(id, ctx, did_feature) ==
    LET oneof == Head(ctx.stream)[2]
        tagged == unwrap_absorb(ctx)
    IN CASE oneof = 0 ->
              IF id[1] = "EdPubKey"
              THEN LET committed == commit(tagged)
                       hash == squeeze_external(committed)
                   IN IF Head(committed.stream) = Item("Signature", <<id, hash>>)
                      THEN Ok(unwrap_skip(squeezed(committed)))
                      ELSE Err("BadSignature")
              ELSE Err("BadIdentifier")
         [] oneof = 1 /\ did_feature ->
              LET fragmented == unwrap_absorb(unwrap_absorb(tagged))
                  committed == commit(fragmented)
                  hash == squeeze_external(committed)
                  signature == Head(committed.stream)
              IN IF signature[1] = "Bytes" /\ signature[2][2] = <<id, hash>>
                 THEN Ok(unwrap_absorb(squeezed(committed)))
                 ELSE Err("SignatureFailure")
         [] OTHER -> Err("BadOneof")

\* ContentSizeof for unsubscription::Wrap
unsubscription_sizeof_counts_join(subscriber_id) ==
    IF IsOk(identity_sizeof(subscriber_id))
    THEN Ok(<<TypeLen("Spongos"), TypeLen("Identifier")>> \o Value(identity_sizeof(subscriber_id)))
    ELSE identity_sizeof(subscriber_id)
unsubscription_sizeof(subscriber_id) ==
    IF IsOk(identity_sizeof(subscriber_id))
    THEN Ok(<<TypeLen("Identifier")>> \o Value(identity_sizeof(subscriber_id)))
    ELSE identity_sizeof(subscriber_id)

\* ContentWrap for unsubscription::Wrap
unsubscription_wrap(ctx, initial_state, subscriber_id) ==
    identity_sign(subscriber_id,
                  commit(wrap_absorb(join(ctx, initial_state),
                                     Item("Identifier", id_of(subscriber_id)))))

\* ContentUnwrap for unsubscription::Unwrap: the context and the
\* subscriber_id read
unsubscription_unwrap_commits_first(ctx, initial_state, did_feature) ==
    LET joined == commit(join(ctx, initial_state))
        subscriber_id == Head(joined.stream)[2]
        verified == identity_verify(subscriber_id, unwrap_absorb(joined), did_feature)
    IN IF IsOk(verified) THEN Ok(<<Value(verified), subscriber_id>>) ELSE verified
unsubscription_unwrap(ctx, initial_state, did_feature) ==
    LET joined == join(ctx, initial_state)
        subscriber_id == Head(joined.stream)[2]
        verified == identity_verify(subscriber_id, commit(unwrap_absorb(joined)), did_feature)
    IN IF IsOk(verified) THEN Ok(<<Value(verified), subscriber_id>>) ELSE verified

\* ContentSizeof / ContentWrap / ContentUnwrap for PCF<Content>, the content
\* being an unsubscription
pcf_sizeof(frame, subscriber_id) ==
    IF IsOk(unsubscription_sizeof(subscriber_id))
    THEN Ok(<<TypeLen("Uint8"), Len(NBytes_from(frame.payload_frame_num))>>
            \o Value(unsubscription_sizeof(subscriber_id)))
    ELSE unsubscription_sizeof(subscriber_id)
pcf_content_wrap(ctx, frame, initial_state, subscriber_id) ==
    unsubscription_wrap(
        wrap_skip(wrap_absorb(ctx, Item("Uint8", frame.frame_type)),
                  Item("NBytes3", NBytes_from(frame.payload_frame_num))),
        initial_state, subscriber_id)
pcf_content_unwrap(ctx, initial_state, did_feature) ==
    unsubscription_unwrap(unwrap_skip(unwrap_absorb(ctx)), initial_state, did_feature)

\* the header, absorbed whole
hdf_wrap(ctx) == wrap_absorb(ctx, Item("HDF", <<>>))
hdf_unwrap(ctx) == unwrap_absorb(ctx)

\* Message::wrap of an unsubscription: (the bytes, the Spongos)
Message_wrap(frame, initial_state, subscriber_id) ==
    LET size == pcf_sizeof(frame, subscriber_id)
        buf_size == TypeLen("HDF") + SumSeq(Value(size))
        ctx == pcf_content_wrap(hdf_wrap(Context(<<>>, <<>>)), frame, initial_state,
                                subscriber_id)
        written == SumSeq([i \in DOMAIN Value(ctx).stream |-> ItemLen(Value(ctx).stream[i])])
    IN IF ~IsOk(size) THEN size
       ELSE IF ~IsOk(ctx) THEN ctx
       ELSE IF written > buf_size THEN Err("StreamFull")
       ELSE IF written < buf_size THEN Err("panic")
       ELSE Ok(<<Value(ctx).stream, Value(ctx).spongos>>)

\* the unwrap of the bytes of a message, joining initial_state: (the
\* Spongos, the subscriber_id)
Message_unwrap(bytes, initial_state, did_feature) ==
    LET ctx == pcf_content_unwrap(hdf_unwrap(Context(<<>>, bytes)), initial_state, did_feature)
    IN IF IsOk(ctx) THEN Ok(<<Value(ctx)[1].spongos, Value(ctx)[2]>>) ELSE ctx

\* the identities and the linked Spongos the messages are built from
Identities ==
    {KeypairIdentity("A"), KeypairIdentity("B"), PskIdentity("K1"),
     DIDIdentity("D", Some("did:D")), DIDIdentity("D", None)}
LinkedSpongos == {<<>>, <<<<"absorb", "announcement">>>>, <<<<"absorb", "keyload">>>>}

\* Message::wrap is called
wrap_message(frame, initial_state, subscriber_id) ==
    Returned("Message::wrap", <<frame, initial_state, subscriber_id>>,
             Message_wrap(frame, initial_state, subscriber_id))

\* the bytes the last Message::wrap returned are unwrapped
unwrap_message(initial_state, did_feature) ==
    /\ call.fn = "Message::wrap"
    /\ IsOk(call.ret)
    /\ Returned("Message::unwrap", <<Value(call.ret)[1], initial_state, did_feature>>,
                Message_unwrap(Value(call.ret)[1], initial_state, did_feature))

\* an operation of UserIdentity is called on its own
identity_call(fn, identity) ==
    Returned(fn, identity,
             CASE fn = "get_ke_kp" -> get_ke_kp(identity)
               [] fn = "get_sig_sk" -> get_sig_sk(identity)
               [] fn = "sizeof" -> identity_sizeof(identity)
               [] fn = "sign" -> identity_sign(identity, Context(<<>>, <<>>)))
\* verify is called on a stream that starts with the tag oneof and goes on as
\* the signer would have written it
verify_call(identity, oneof, signer, did_feature) ==
    LET prefix == IF oneof = 1
                  THEN <<Item("Uint8", 1), Item("DIDSize", "did:D"), key_fragment>>
                  ELSE <<Item("Uint8", oneof)>>
        start == Context(<<>>, prefix)
        absorbed == IF oneof = 1 THEN unwrap_absorb(unwrap_absorb(unwrap_absorb(start)))
                    ELSE unwrap_absorb(start)
        hash == squeeze_external(commit(absorbed))
        signature == IF oneof = 1
                     THEN Bytes(TypeLen("Signature"), <<id_of(signer), hash>>)
                     ELSE Item("Signature", <<id_of(signer), hash>>)
    IN Returned("verify", <<id_of(identity), oneof, did_feature, id_of(signer)>>,
                identity_verify(id_of(identity), Context(<<>>, prefix \o <<signature>>),
                                did_feature))

NextMessage ==
    \/ \E frame \in {new_final_frame, new_init_frame} : \E initial_state \in LinkedSpongos :
          \E subscriber_id \in Identities : wrap_message(frame, initial_state, subscriber_id)
    \/ \E initial_state \in LinkedSpongos : \E did_feature \in BOOLEAN :
          unwrap_message(initial_state, did_feature)
    \/ \E fn \in {"get_ke_kp", "get_sig_sk", "sizeof", "sign"} : \E identity \in Identities :
          identity_call(fn, identity)
    \/ \E identity \in Identities, signer \in Identities, oneof \in 0..3, did_feature \in BOOLEAN :
          verify_call(identity, oneof, signer, did_feature)

SpecMessage == Init /\ [][NextMessage]_vars

\* what the transport hands over when the linked_msg_address of the header was
\* replaced by another address
delivered_relinked(address, link) == [transport[address] EXCEPT !.link = Some(link)]

\* User::receive_message of a linked message whose header names another
\* message the receiver has the Spongos of
receive_relinked_message(u, address, link) ==
    /\ Idle(u)
    /\ map_contains(transport, address)
    /\ IsSome(transport[address].link)
    /\ map_contains(spongos_store[u], link)
    /\ handle_message(u, address, delivered_relinked(address, link), FALSE)
    /\ UNCHANGED <<orphans, pcf, call>>

\* the identity that unsubscribes in the specification of the linkage, and
\* the Spongos its unsubscription is linked to
Unsubscribers == {KeypairIdentity("B")}
ParentSpongos == LinkedSpongos \ {<<>>}

\* linked messages sent on any message the sender knows, delivered intact or
\* with the link of the header replaced; unsubscriptions wrapped and unwrapped
\* on the same or on another Spongos
NextLinkage ==
    \/ \E u \in Authors, idx \in StreamIdxs : create_stream(u, idx)
    \/ \E u \in Users : \E link_to \in DOMAIN spongos_store[u] : unsubscribe(u, link_to)
    \/ \E u \in Users : \E link_to \in DOMAIN spongos_store[u] :
           send_signed_packet(u, link_to, Payload)
    \/ \E u \in Users : \E link_to \in DOMAIN spongos_store[u] :
           send_tagged_packet(u, link_to, Payload)
    \/ \E u \in Users : recv_message_resolves(u)
    \/ \E u \in Users : send_message_resolves(u)
    \/ \E u \in Users : \E address \in DOMAIN transport : receive_message(u, address, FALSE)
    \/ \E u \in Users : \E address \in DOMAIN transport : \E link \in DOMAIN spongos_store[u] :
           receive_relinked_message(u, address, link)
    \/ \E initial_state \in ParentSpongos : \E subscriber_id \in Unsubscribers :
           wrap_message(new_final_frame, initial_state, subscriber_id)
    \/ \E initial_state \in ParentSpongos : unwrap_message(initial_state, TRUE)

SpecLinkage == Init /\ [][NextLinkage]_vars

\* keyloads of the stream and signed packets linked to any message the sender
\* knows; every delivery is intact and every send goes through
NextKeyload ==
    \/ \E u \in Authors, idx \in StreamIdxs : create_stream(u, idx)
    \/ \E u \in Users : \E link_to \in StreamLinks(u) : subscribe(u, link_to)
    \/ \E u \in Users : \E link_to \in StreamLinks(u) : \E k \in KeyloadInputs :
           send_keyload(u, link_to, k[1], k[2])
    \/ \E u \in Users : \E link_to \in DOMAIN spongos_store[u] :
           send_signed_packet(u, link_to, Payload)
    \/ \E u \in Users : recv_message_resolves(u)
    \/ \E u \in Users : send_message_resolves(u)
    \/ \E u \in Users : \E address \in DOMAIN transport : receive_message(u, address, FALSE)

SpecKeyload == Init /\ [][NextKeyload]_vars

\* User::send_keyload_for_all / send_keyload_for_all_rw: every identifier of
\* exchange_keys, the sender's own included, and every pre-shared key
send_keyload_for_all(u, link_to) ==
    send_keyload(u, link_to, {Read(id) : id \in subscribers(u)}, DOMAIN psk_store[u])
send_keyload_for_all_rw(u, link_to) ==
    send_keyload(u, link_to, {ReadWrite(id) : id \in subscribers(u)}, DOMAIN psk_store[u])

\* the lists the keyloads of the specification of the seeding carry
SeedingInputs == { <<{Admin("B")}, {}>>, <<{Read("B")}, {}>>, <<{ReadWrite("B")}, {}>> }

\* keyloads for chosen subscribers and for all of them, over a transport that
\* delivers every message intact and fails no send
NextSeeding ==
    \/ \E u \in Authors, idx \in StreamIdxs : create_stream(u, idx)
    \/ \E u \in Users : \E link_to \in StreamLinks(u) : subscribe(u, link_to)
    \/ \E u \in Users : \E link_to \in StreamLinks(u) : \E k \in SeedingInputs :
           send_keyload(u, link_to, k[1], k[2])
    \/ \E u \in Users : \E link_to \in StreamLinks(u) : send_keyload_for_all(u, link_to)
    \/ \E u \in Users : \E link_to \in StreamLinks(u) : send_keyload_for_all_rw(u, link_to)
    \/ \E u \in Users : recv_message_resolves(u)
    \/ \E u \in Users : send_message_resolves(u)
    \/ \E u \in Users : \E address \in DOMAIN transport : receive_message(u, address, FALSE)

SpecSeeding == Init /\ [][NextSeeding]_vars

NextBackup ==
    \/ \E u \in Authors, idx \in StreamIdxs : create_stream(u, idx)
    \/ \E u \in Users : \E link_to \in StreamLinks(u) : \E k \in KeyloadInputs :
           send_keyload(u, link_to, k[1], k[2])
    \/ \E u \in Users : recv_message_resolves(u)
    \/ \E u \in Users : send_message_resolves(u)
    \/ \E u \in Users : \E address \in DOMAIN transport : receive_message(u, address, FALSE)
    \/ \E u \in Users : \E pwd \in Passwords : \E order \in IterationOrders(state_of(u)) :
           backup(u, pwd, order)
    \/ \E pwd \in Passwords : restore(pwd)
    \/ \E frame \in {new_final_frame, new_init_frame} : \E initial_state \in LinkedSpongos :
          \E subscriber_id \in Identities : wrap_message(frame, initial_state, subscriber_id)

SpecBackup == Init /\ [][NextBackup]_vars

\* User::restore of the bytes the last backup returned, the User it returns
\* taking the place of v: a second instance with the State of the first
restore_as(v, pwd) ==
    /\ call.fn = "backup"
    /\ IsOk(call.ret)
    /\ Idle(v)
    /\ v # call.arg[1]
    /\ LET ret == State_unwrap(key_of(pwd), Value(call.ret))
           st == IF IsOk(ret) THEN Value(ret) ELSE state_of(v)
       IN /\ call' = Call("restore", <<Value(call.ret), pwd>>, ret)
          /\ user_id' = [user_id EXCEPT ![v] = st.user_id]
          /\ stream_address' = [stream_address EXCEPT ![v] = st.stream_address]
          /\ author_identifier' = [author_identifier EXCEPT ![v] = st.author_identifier]
          /\ cursor_store' = [cursor_store EXCEPT ![v] = st.cursor_store]
          /\ psk_store' = [psk_store EXCEPT ![v] = st.psk_store]
          /\ exchange_keys' = [exchange_keys EXCEPT ![v] = st.exchange_keys]
          /\ spongos_store' = [spongos_store EXCEPT ![v] = st.spongos_store]
          /\ last' = Last(v, "restore", IF IsOk(ret) THEN "ok" ELSE "err:Unwrap", None, FALSE)
    /\ UNCHANGED <<transport, pending, orphans, pcf>>

\* an author, the instance restored from its backup, and their sends over a
\* transport that may fail
NextClones ==
    \/ \E u \in Authors, idx \in StreamIdxs : create_stream(u, idx)
    \/ \E u \in Users : \E link_to \in StreamLinks(u) : send_signed_packet(u, link_to, Payload)
    \/ \E u \in Users : \E link_to \in StreamLinks(u) : send_tagged_packet(u, link_to, Payload)
    \/ \E u \in Users : recv_message_resolves(u)
    \/ \E u \in Users : send_message_resolves(u)
    \/ \E u \in Users : send_message_fails(u)
    \/ \E u \in Authors : \E pwd \in Passwords : \E order \in IterationOrders(state_of(u)) :
           backup(u, pwd, order)
    \/ \E v \in Users : \E pwd \in Passwords : restore_as(v, pwd)

SpecClones == Init /\ [][NextClones]_vars

\* User::receive_message of an intact message, with the record of the call: the
\* user and the address, the outcome, and whether it is the first delivery of
\* that address to that user or one that follows another at once
receive_message_again(u, address) ==
    /\ Idle(u)
    /\ map_contains(transport, address)
    /\ handle_message(u, address, delivered(address, FALSE), FALSE)
    /\ call' = Call("receive_message", <<u, address>>,
                    <<last'.out,
                      IF /\ call.fn = "receive_message"
                         /\ call.arg = <<u, address>>
                         /\ last.user = u
                         /\ last.op = last'.op
                      THEN 2 ELSE 1>>)
    /\ UNCHANGED <<orphans, pcf>>

\* a stream whose messages are delivered to the users over and over
NextRedelivery ==
    \/ \E u \in Authors, idx \in StreamIdxs : create_stream(u, idx)
    \/ \E u \in Users : \E link_to \in StreamLinks(u) : subscribe(u, link_to)
    \/ \E u \in Users : \E link_to \in StreamLinks(u) : unsubscribe(u, link_to)
    \/ \E u \in Users : \E link_to \in StreamLinks(u) :
           send_keyload(u, link_to, {ReadWrite("B")}, {"K1"})
    \/ \E u \in Users : \E link_to \in StreamLinks(u) : send_signed_packet(u, link_to, Payload)
    \/ \E u \in Users : \E link_to \in StreamLinks(u) : send_tagged_packet(u, link_to, Payload)
    \/ \E u \in Users : recv_message_resolves(u)
    \/ \E u \in Users : send_message_resolves(u)
    \/ \E u \in Users : \E address \in DOMAIN transport : receive_message_again(u, address)

SpecRedelivery == Init /\ [][NextRedelivery]_vars

(***************************************************************************)
(* Properties.                                                             *)
(***************************************************************************)
SendOps == {"create_stream", "subscribe", "unsubscribe", "send_keyload",
            "send_signed_packet", "send_tagged_packet"}
CursorSendOps == {"unsubscribe", "send_keyload", "send_signed_packet", "send_tagged_packet"}

\* the handler handle_message dispatches a message of the kind to
HandleOp(kind) ==
    CASE kind = "announcement" -> "handle_announcement"
      [] kind = "subscription" -> "handle_subscription"
      [] kind = "unsubscription" -> "handle_unsubscription"
      [] kind = "keyload" -> "handle_keyload"
      [] kind = "signed_packet" -> "handle_signed_packet"
      [] kind = "tagged_packet" -> "handle_tagged_packet"

\* the step completes a send operation of u successfully
SendSucceeds(u) ==
    /\ ~Idle(u)
    /\ pending'[u] = None
    /\ last'.user = u
    /\ last'.out = "ok"

\* the step is receive_message(u, address, _) with outcome out
Receives(u, address, out) ==
    /\ last'.user = u
    /\ last'.op = HandleOp(transport[address].kind)
    /\ last'.out = out
    /\ \E corrupt \in BOOLEAN : receive_message(u, address, corrupt)

\* C1: a send operation that returns an error (failed precondition, occupied
\* address, transport failure) or is dropped at a transport await leaves the
\* State of the user as it was before the call: while a send of u is in
\* flight, and in the step that ends a send of u, State(u) changes only in
\* the step in which transport.send_message resolved successfully.
SendAtomicity ==
    [][\A u \in Users :
          ( /\ ~Idle(u) \/ (last'.user = u /\ last'.op \in SendOps)
            /\ ~(last'.user = u /\ last'.out = "ok") )
          => State(u)' = State(u)]_vars

SendAtomicityWitness ==
    /\ last.op = "send_keyload"
    /\ last.out = "err:Transport"
    /\ cursor_store[last.user][last.user] = INIT_MESSAGE_NUM

\* C2: when the target address of a send is occupied at the time
\* transport.recv_message resolves, the operation ends with an error without
\* reaching transport.send_message, the transport keeps the message it holds
\* and the State of the sender is unchanged.
AddressConflict ==
    [][\A u \in Users :
          ( /\ ~Idle(u)
            /\ Unwrapped(pending[u]).stage = "recv"
            /\ map_contains(transport, Unwrapped(pending[u]).addr)
            /\ last'.user = u )
          => /\ pending'[u] = None
             /\ last'.out \in {"err:AddressConflict", "dropped"}
             /\ transport' = transport
             /\ State(u)' = State(u)]_vars

AddressConflictWitness ==
    /\ last.op = "subscribe"
    /\ last.out = "err:AddressConflict"

\* C3: a successful unsubscribe, send_keyload, send_signed_packet or
\* send_tagged_packet raises cursor_store[self] by exactly 1; the header of the
\* message carries the new value and the MsgId is MsgId::gen(stream base,
\* self, new value).
CursorMonotonicOnSend ==
    [][\A u \in Users :
          (SendSucceeds(u) /\ last'.op \in CursorSendOps)
          => LET id == to_identifier(Unwrapped(user_id[u]))
                 p == Unwrapped(pending[u])
             IN /\ id \in DOMAIN cursor_store[u]
                /\ cursor_store'[u][id] = cursor_store[u][id] + 1
                /\ p.addr \in DOMAIN transport'
                /\ transport'[p.addr].seq = cursor_store'[u][id]
                /\ p.addr = Address_new(base_of(Unwrapped(stream_address[u])),
                                        MsgId_gen(base_of(Unwrapped(stream_address[u])), id,
                                                  cursor_store'[u][id]))]_vars

CursorMonotonicOnSendWitness ==
    /\ last.op = "send_tagged_packet"
    /\ last.out = "ok"
    /\ cursor_store[last.user][last.user] = 2

\* C4 as stated: after every successful send, the announcement of
\* create_stream and the subscription of subscribe included, cursor_store[self]
\* equals the sequence number in the header of the message sent.
CursorEqualsSequenceAllSends ==
    [][\A u \in Users :
          SendSucceeds(u)
          => LET id == to_identifier(Unwrapped(user_id[u]))
                 p == Unwrapped(pending[u])
             IN /\ id \in DOMAIN cursor_store'[u]
                /\ cursor_store'[u][id] = transport'[p.addr].seq]_vars

\* C4 amended: after a successful unsubscribe, send_keyload, send_signed_packet
\* or send_tagged_packet cursor_store[self] equals the sequence number in the
\* header; create_stream sends the header sequence ANN_MESSAGE_NUM (0) and
\* sets cursor_store[self] to INIT_MESSAGE_NUM (1); subscribe sends the header
\* sequence SUB_MESSAGE_NUM (0) and leaves cursor_store as it was.
CursorEqualsSequence ==
    [][\A u \in Users :
          SendSucceeds(u)
          => LET id == to_identifier(Unwrapped(user_id[u]))
                 p == Unwrapped(pending[u])
                 sent == transport'[p.addr]
             IN CASE last'.op = "create_stream" ->
                       /\ sent.seq = ANN_MESSAGE_NUM
                       /\ get_cursor(cursor_store'[u], id) = Some(INIT_MESSAGE_NUM)
                  [] last'.op = "subscribe" ->
                       /\ sent.seq = SUB_MESSAGE_NUM
                       /\ cursor_store'[u] = cursor_store[u]
                  [] OTHER ->
                       get_cursor(cursor_store'[u], id) = Some(sent.seq)]_vars

CursorEqualsSequenceWitness ==
    /\ last.op = "create_stream"
    /\ last.out = "ok"
    /\ cursor_store[last.user][last.user] = INIT_MESSAGE_NUM

\* C5: whenever stream_address = Some(a), spongos_store holds a.relative(); so
\* the expect() on the announcement spongos in handle_keyload and send_keyload
\* never panics.
StreamSpongosKept ==
    /\ \A u \in Users :
          IsSome(stream_address[u])
          => map_contains(spongos_store[u], relative(Unwrapped(stream_address[u])))
    /\ ~(last.op \in {"handle_keyload", "send_keyload"} /\ last.out = "panic")

StreamSpongosKeptWitness ==
    /\ last.op = "handle_keyload"
    /\ last.out = "ok"
    /\ last.user = "B"
    /\ IsSome(stream_address["B"])

\* C6: neither a successful subscribe nor a successful handle_subscription
\* changes spongos_store; the MsgId of the subscription is not added.
SubscriptionNotStored ==
    [][\A u \in Users :
          /\ (SendSucceeds(u) /\ last'.op = "subscribe")
             => /\ spongos_store'[u] = spongos_store[u]
                /\ Unwrapped(pending[u]).addr \in DOMAIN transport'
                /\ ~map_contains(spongos_store'[u], relative(Unwrapped(pending[u]).addr))
          /\ \A address \in DOMAIN transport :
                (Receives(u, address, "ok") /\ transport[address].kind = "subscription")
                => /\ spongos_store'[u] = spongos_store[u]
                   /\ ~map_contains(spongos_store'[u], relative(address))]_vars

SubscriptionNotStoredWitness ==
    /\ last.op = "handle_subscription"
    /\ last.out = "ok"
    /\ map_contains(exchange_keys["A"], "B")

\* C7: after a successful create_stream, unsubscribe, send_keyload,
\* send_signed_packet or send_tagged_packet to address a, and after a
\* successful handle_message of a message of any kind but subscription at
\* address a, spongos_store[a.relative()] holds the Spongos that wrapping the
\* message left.
SpongosStored ==
    [][\A u \in Users :
          /\ (SendSucceeds(u) /\ last'.op # "subscribe")
             => LET a == Unwrapped(pending[u]).addr
                IN /\ map_contains(spongos_store'[u], relative(a))
                   /\ spongos_store'[u][relative(a)] = wrap_spongos(transport'[a])
          /\ \A a \in DOMAIN transport :
                (Receives(u, a, "ok") /\ transport[a].kind # "subscription")
                => /\ map_contains(spongos_store'[u], relative(a))
                   /\ spongos_store'[u][relative(a)] = wrap_spongos(transport[a])]_vars

SpongosStoredWitness ==
    /\ last.op = "handle_tagged_packet"
    /\ last.out = "ok"
    /\ last.user = "B"

\* C8 as stated: every message a user has published with a linked message
\* address links to an address whose Spongos is in the spongos_store of that
\* user (the store never loses an entry, so this is the store at send time
\* or a larger one).
LinkedAddressKnown ==
    \A a \in DOMAIN transport :
        IsSome(transport[a].link)
        => map_contains(spongos_store[transport[a].publisher], Unwrapped(transport[a].link))

\* C9 as stated: for announcement, unsubscription, keyload, signed packet and
\* tagged packet handle_message sets cursor_store[publisher] to
\* max(previous cursor, header sequence) before the unwrap (observed where
\* the unwrap failed, and where it succeeded for the kinds that do not touch
\* the cursors afterwards).
PublisherCursorIsMaxAllKinds ==
    [][\A u \in Users : \A a \in DOMAIN transport :
          LET m == transport[a]
              cs == cursor_store[u]
          IN ( /\ m.kind # "subscription"
               /\ \/ Receives(u, a, "err:Unwrap")
                  \/ Receives(u, a, "ok") /\ m.kind # "unsubscription" )
             => /\ m.publisher \in DOMAIN cursor_store'[u]
                /\ cursor_store'[u][m.publisher] =
                      IF m.publisher \in DOMAIN cs THEN Max(cs[m.publisher], m.seq) ELSE m.seq]_vars

\* C9 amended: for keyload, signed packet and tagged packet handle_message
\* sets cursor_store[publisher] to max(previous cursor, header sequence)
\* before the unwrap and before the orphan check, whatever the outcome; for
\* an announcement handled by a user without a stream it sets it to
\* max(previous cursor, INIT_MESSAGE_NUM); for an unsubscription, as for a
\* subscription, it does not track the publisher: cursor_store is unchanged
\* unless the unwrap succeeds, and then only the subscriber is removed.
PublisherCursorIsMax ==
    [][\A u \in Users : \A a \in DOMAIN transport :
          LET m == transport[a]
              cs == cursor_store[u]
              prev(n) == IF m.publisher \in DOMAIN cs THEN Max(cs[m.publisher], n) ELSE n
              rule == CASE m.kind \in {"keyload", "signed_packet", "tagged_packet"} ->
                             /\ m.publisher \in DOMAIN cursor_store'[u]
                             /\ cursor_store'[u][m.publisher] = prev(m.seq)
                        [] m.kind = "announcement" ->
                             IF IsSome(stream_address[u])
                             THEN cursor_store'[u] = cs
                             ELSE /\ m.publisher \in DOMAIN cursor_store'[u]
                                  /\ cursor_store'[u][m.publisher] = prev(INIT_MESSAGE_NUM)
                        [] m.kind = "unsubscription" ->
                             IF last'.out = "ok"
                             THEN cursor_store'[u] = cursor_remove(cs, m.content.subject)
                             ELSE cursor_store'[u] = cs
                        [] OTHER -> cursor_store'[u] = cs
          \* the rule holds of the message at a, or the step is not its receipt
          IN rule \/ ~Receives(u, a, last'.out)]_vars

\* B, not yet in the stream, has handled a packet of A with sequence 2 (an
\* orphan, tracked all the same) and then the announcement of A: the cursor of
\* A stays 2, the larger of 2 and INIT_MESSAGE_NUM
PublisherCursorIsMaxWitness ==
    /\ last.op = "handle_announcement"
    /\ last.out = "ok"
    /\ last.user = "B"
    /\ get_cursor(cursor_store["B"], "A") = Some(2)

\* C10: when the header of a keyload, signed packet, tagged packet or
\* announcement is valid and the unwrap of the payload fails, handle_message
\* returns an error, cursor_store[publisher] is tracked and at least the
\* header sequence, and spongos_store is unchanged.
CursorReflectsExistence ==
    [][\A u \in Users : \A a \in DOMAIN transport :
          LET m == transport[a]
          IN ( /\ m.kind \in {"keyload", "signed_packet", "tagged_packet", "announcement"}
               /\ Receives(u, a, "err:Unwrap") )
             => /\ m.publisher \in DOMAIN cursor_store'[u]
                /\ cursor_store'[u][m.publisher] >= m.seq
                /\ spongos_store'[u] = spongos_store[u]]_vars

CursorReflectsExistenceWitness ==
    /\ last.op = "handle_keyload"
    /\ last.out = "err:Unwrap"
    /\ last.user = "B"
    /\ get_cursor(cursor_store["B"], "A") = Some(2)
    /\ IsSome(stream_address["B"])
    /\ DOMAIN spongos_store["B"] = {relative(Unwrapped(stream_address["B"]))}

\* the kinds whose header carries the address of the message they are linked to
LinkedKinds == {"subscription", "unsubscription", "keyload", "signed_packet", "tagged_packet"}

\* C11 as stated: whenever a user handles a subscription, unsubscription,
\* keyload, signed packet or tagged packet whose linked_msg_address is no key
\* of its spongos_store, handle_message returns an Orphan and no error.
OrphanDetection ==
    [][\A u \in Users : \A a \in DOMAIN transport :
          LET m == transport[a]
          IN ( /\ m.kind \in LinkedKinds
               /\ IsSome(m.link)
               /\ ~map_contains(spongos_store[u], Unwrapped(m.link))
               /\ Receives(u, a, last'.out) )
             => last'.out = "orphan"]_vars

\* C12 as stated: whenever handle_message returns an Orphan, the State of the
\* receiver is the State before the call.
OrphanLeavesState ==
    [][\A u \in Users : \A a \in DOMAIN transport :
          Receives(u, a, "orphan") => State(u)' = State(u)]_vars

\* C12 amended: whenever handle_message returns an Orphan, user_id,
\* stream_address, author_identifier, psk_store, exchange_keys and
\* spongos_store are as before the call; cursor_store is as before for a
\* subscription or unsubscription, and for a signed or tagged packet it is the
\* store before the call with the publisher tracked at max(previous cursor,
\* header sequence).
OrphanFrame ==
    [][\A u \in Users : \A a \in DOMAIN transport :
          LET m == transport[a]
          IN Receives(u, a, "orphan")
             => /\ user_id'[u] = user_id[u]
                /\ stream_address'[u] = stream_address[u]
                /\ author_identifier'[u] = author_identifier[u]
                /\ psk_store'[u] = psk_store[u]
                /\ exchange_keys'[u] = exchange_keys[u]
                /\ spongos_store'[u] = spongos_store[u]
                /\ cursor_store'[u] =
                      IF m.kind \in {"signed_packet", "tagged_packet"}
                      THEN insert_cursor(cursor_store[u], m.publisher, m.seq)
                      ELSE cursor_store[u]]_vars

\* B, who has not handled the announcement, was handed an Orphan for a tagged
\* packet of A and tracks A at the sequence of the packet
OrphanFrameWitness ==
    /\ last.op = "handle_tagged_packet"
    /\ last.out = "orphan"
    /\ last.user = "B"
    /\ spongos_store["B"] = EmptyMap
    /\ get_cursor(cursor_store["B"], "A") = Some(2)

\* the step is receive_message(u, address) with outcome out, by a caller that
\* keeps its orphans
ReceivesKeeping(u, address, out) ==
    /\ last'.user = u
    /\ last'.op = HandleOp(transport[address].kind)
    /\ last'.out = out
    /\ receive_message_keeping_orphans(u, address, FALSE)

\* C13 as stated: an Orphan is returned with the parent missing and leaves
\* spongos_store unchanged; handling the same message again once its parent is
\* stored does not return an Orphan but goes on to the unwrap against the
\* stored Spongos of the parent and, on success, stores the Spongos of the
\* message.
OrphanRetryAllKinds ==
    [][\A u \in Users : \A a \in DOMAIN transport :
          LET m == transport[a]
              ss == spongos_store[u]
          IN /\ ReceivesKeeping(u, a, "orphan")
                => /\ ~map_contains(ss, Unwrapped(m.link))
                   /\ spongos_store'[u] = ss
             /\ ( /\ a \in orphans[u]
                  /\ map_contains(ss, Unwrapped(m.link))
                  /\ ReceivesKeeping(u, a, last'.out) )
                => /\ last'.out \in {"ok", "err:Unwrap"}
                   /\ last'.out = "ok"
                      => /\ map_contains(spongos_store'[u], relative(a))
                         /\ spongos_store'[u][relative(a)] =
                               unwrap_spongos(m, Some(ss[Unwrapped(m.link)]))]_vars

\* C13 amended: as stated for an unsubscription, signed packet or tagged
\* packet.  A subscription handled again once its parent is stored does not
\* return an Orphan either, but a receiver without identity fails before the
\* unwrap, and a successful unwrap leaves spongos_store as it was.
OrphanRetry ==
    [][\A u \in Users : \A a \in DOMAIN transport :
          LET m == transport[a]
              ss == spongos_store[u]
          IN /\ ReceivesKeeping(u, a, "orphan")
                => /\ ~map_contains(ss, Unwrapped(m.link))
                   /\ spongos_store'[u] = ss
             /\ ( /\ a \in orphans[u]
                  /\ map_contains(ss, Unwrapped(m.link))
                  /\ ReceivesKeeping(u, a, last'.out) )
                => IF m.kind = "subscription"
                   THEN /\ last'.out \in {"ok", "err:Unwrap", "err:NoIdentity"}
                        /\ last'.out = "err:NoIdentity" <=> ~IsSome(user_id[u])
                        /\ spongos_store'[u] = ss
                   ELSE /\ last'.out \in {"ok", "err:Unwrap"}
                        /\ last'.out = "ok"
                           => /\ map_contains(spongos_store'[u], relative(a))
                              /\ spongos_store'[u][relative(a)] =
                                    unwrap_spongos(m, Some(ss[Unwrapped(m.link)]))]_vars

\* B was handed an Orphan for a signed packet, and has since handled it
\* successfully
OrphanRetryWitness ==
    /\ last.op = "handle_signed_packet"
    /\ last.out = "ok"
    /\ last.user = "B"
    /\ \E a \in orphans["B"] :
          /\ transport[a].kind = "signed_packet"
          /\ map_contains(spongos_store["B"], relative(a))

\* C14: handle_message dispatches a message to a handler only when its type is
\* one of the six known ones; a message of any other type is rejected with an
\* error and the State of the receiver is unchanged.
UnknownTypeRejected ==
    [][\A u \in Users : \A a \in DOMAIN transport :
          /\ (last'.user = u /\ receive_unknown_message(u, a))
             => /\ last'.op = "handle_message"
                /\ last'.out = "err:UnknownMessageType"
                /\ State(u)' = State(u)
          /\ Receives(u, a, last'.out)
             => /\ transport[a].kind \in LinkedKinds \cup {"announcement"}
                /\ last'.op # "handle_message"]_vars

\* B, in the stream of A and tracking A, has rejected a message of unknown type
UnknownTypeRejectedWitness ==
    /\ last.op = "handle_message"
    /\ last.out = "err:UnknownMessageType"
    /\ last.user = "B"
    /\ IsSome(stream_address["B"])
    /\ get_cursor(cursor_store["B"], "A") = Some(INIT_MESSAGE_NUM)

\* C15: after a successful handle_announcement of the announcement at address
\* a with content (author_id, author_ke_pk), stream_address = Some(a),
\* author_identifier = Some(author_id), exchange_keys[author_id] =
\* author_ke_pk and spongos_store[a.relative()] is the Spongos the wrap of the
\* announcement left.
AnnouncementBinds ==
    [][\A u \in Users : \A a \in DOMAIN transport :
          LET m == transport[a]
          IN (m.kind = "announcement" /\ Receives(u, a, "ok"))
             => /\ stream_address'[u] = Some(a)
                /\ author_identifier'[u] = Some(m.content.subject)
                /\ map_contains(exchange_keys'[u], m.content.subject)
                /\ exchange_keys'[u][m.content.subject] = m.content.ke
                /\ map_contains(spongos_store'[u], relative(a))
                /\ spongos_store'[u][relative(a)] = wrap_spongos(m)]_vars

\* B has handled the announcement of A as the first message of A it saw
AnnouncementBindsWitness ==
    /\ last.op = "handle_announcement"
    /\ last.out = "ok"
    /\ last.user = "B"
    /\ stream_address["B"] = stream_address["A"]
    /\ author_identifier["B"] = Some("A")
    /\ get_cursor(cursor_store["B"], "A") = Some(INIT_MESSAGE_NUM)

\* C16: a user is in at most one stream: once stream_address is Some(a) no
\* step changes it; create_stream and handle_announcement of a user whose
\* stream_address is set fail, and the failure leaves the whole State of the
\* user as it was.
OneStreamPerUser ==
    [][\A u \in Users :
          IsSome(stream_address[u])
          => /\ stream_address'[u] = stream_address[u]
             /\ \A idx \in StreamIdxs :
                    create_stream(u, idx)
                    => (last'.out = "err:AlreadyInStream" /\ State(u)' = State(u))
             /\ \A a \in DOMAIN transport :
                    (transport[a].kind = "announcement" /\ Receives(u, a, last'.out))
                    => (last'.out = "err:AlreadyInStream" /\ State(u)' = State(u))]_vars

\* B, already in the stream, was handed the announcement again and refused it
OneStreamPerUserWitness ==
    /\ last.op = "handle_announcement"
    /\ last.out = "err:AlreadyInStream"
    /\ last.user = "B"
    /\ IsSome(stream_address["B"])

\* the receiver u fails a precondition of the handler of the message at a: a
\* keyload before any announcement, or a subscription without an identity
FailsPrecondition(u, a) ==
    \/ /\ transport[a].kind = "keyload"
       /\ ~(IsSome(stream_address[u]) /\ IsSome(author_identifier[u]))
    \/ /\ transport[a].kind = "subscription"
       /\ ~IsSome(user_id[u])

\* C17: a precondition failure on the receive path (handle_keyload before any
\* announcement was received, handle_subscription by a user without an
\* identity) returns an error and leaves the State, cursor_store included,
\* equal to the State before the call.
PreconditionFailureLeavesState ==
    [][\A u \in Users : \A a \in DOMAIN transport :
          (FailsPrecondition(u, a) /\ Receives(u, a, last'.out))
          => /\ last'.out \in {"err:NoStream", "err:NoIdentity"}
             /\ State(u)' = State(u)]_vars

\* C17, as the code has it: handle_keyload before any announcement returns the
\* no-stream error after it recorded the publisher's cursor, the rest of the
\* State being unchanged; handle_subscription by a user without an identity
\* leaves the whole State unchanged, returning the no-identity error when the
\* linked spongos is stored and an orphan when it is not.
PreconditionFailureFrame ==
    [][\A u \in Users : \A a \in DOMAIN transport :
          LET m == transport[a]
          IN (FailsPrecondition(u, a) /\ Receives(u, a, last'.out))
             => /\ user_id'[u] = user_id[u]
                /\ stream_address'[u] = stream_address[u]
                /\ author_identifier'[u] = author_identifier[u]
                /\ psk_store'[u] = psk_store[u]
                /\ exchange_keys'[u] = exchange_keys[u]
                /\ spongos_store'[u] = spongos_store[u]
                /\ IF m.kind = "keyload"
                   THEN /\ last'.out = "err:NoStream"
                        /\ cursor_store'[u] = insert_cursor(cursor_store[u], m.publisher, m.seq)
                   ELSE /\ cursor_store'[u] = cursor_store[u]
                        /\ last'.out = IF map_contains(spongos_store[u], Unwrapped(m.link))
                                       THEN "err:NoIdentity" ELSE "orphan"]_vars

\* B was handed a keyload of A before any announcement: the handler failed, and
\* B tracks A all the same
PreconditionFailureFrameWitness ==
    /\ last.op = "handle_keyload"
    /\ last.out = "err:NoStream"
    /\ last.user = "B"
    /\ ~IsSome(stream_address["B"])
    /\ is_cursor_tracked(cursor_store["B"], "A")

\* C18: after a receiver successfully handles an unsubscription whose content
\* names a subscriber, neither exchange_keys nor cursor_store of the receiver
\* contains that subscriber, and the resulting spongos is stored at the
\* address.relative() of the message.
UnsubscriptionRemoves ==
    [][\A u \in Users : \A a \in DOMAIN transport :
          LET m == transport[a]
          IN (m.kind = "unsubscription" /\ Receives(u, a, "ok"))
             => /\ ~map_contains(exchange_keys'[u], m.content.subject)
                /\ ~is_cursor_tracked(cursor_store'[u], m.content.subject)
                /\ map_contains(spongos_store'[u], relative(a))
                /\ spongos_store'[u][relative(a)] = wrap_spongos(m)]_vars

\* B, who learnt of A from the announcement, has handled the unsubscription
\* of A and knows A no longer
UnsubscriptionRemovesWitness ==
    /\ last.op = "handle_unsubscription"
    /\ last.out = "ok"
    /\ last.user = "B"
    /\ author_identifier["B"] = Some("A")
    /\ ~map_contains(exchange_keys["B"], "A")
    /\ ~is_cursor_tracked(cursor_store["B"], "A")

\* the identifiers of pre-shared keys
PskIds == {"K1", "K2"}

\* C19: in every reachable state of a user, every known subscriber identifier
\* (tracked in cursor_store or returned by subscribers()) has an entry in
\* exchange_keys or is a PSK identifier.
KnownSubscriberHasKey ==
    \A u \in Users : \A id \in (DOMAIN cursor_store[u]) \cup subscribers(u) :
        map_contains(exchange_keys[u], id) \/ id \in PskIds

\* C19, as the code has it: add_subscriber leaves the subscriber with its
\* exchange key, remove_subscriber leaves it in neither store, and a
\* send_keyload that gets as far as wrapping names only subscribers whose
\* exchange key the sender holds; cursor_store is not bound to exchange_keys.
SubscriberKeys ==
    [][\A u \in Users :
          /\ \A id \in Subscribers :
                add_subscriber(u, id)
                => /\ id \in subscribers(u)'
                   /\ exchange_keys'[u][id] = ke_pk(id)
                   /\ cursor_store'[u] = cursor_store[u]
          /\ \A id \in Subscribers :
                remove_subscriber(u, id)
                => /\ id \notin subscribers(u)'
                   /\ ~is_cursor_tracked(cursor_store'[u], id)
          /\ \A link_to \in StreamLinks(u) : \A k \in KeyloadInputs :
                (send_keyload(u, link_to, k[1], k[2]) /\ IsSome(pending'[u]))
                => \A p \in k[1] : identifier_of(p) \in subscribers(u)]_vars

\* A, holding the exchange key of B, has sent a keyload that names B
SubscriberKeysWitness ==
    /\ last.op = "send_keyload"
    /\ last.out = "ok"
    /\ last.user = "A"
    /\ "B" \in subscribers("A")
    /\ \E a \in DOMAIN transport :
          /\ transport[a].kind = "keyload"
          /\ transport[a].content.subs # {}

\* C20: parent snapshots stay pristine: a send or a handle that links to the
\* entry P of spongos_store works on a copy of it, so the entry has the same
\* value after the operation as before, whether the operation succeeds or
\* fails; and no operation removes an entry of spongos_store.  (Checked for
\* every entry the store holds at every step, the linked one included.)
ParentsPristine ==
    [][\A u \in Users : \A P \in DOMAIN spongos_store[u] :
          /\ map_contains(spongos_store'[u], P)
          /\ spongos_store'[u][P] = spongos_store[u][P]]_vars

\* B has handled a signed packet: its spongos is stored as the child of the
\* linked spongos, and the linked entry is still the parent it was joined to
ParentsPristineWitness ==
    /\ last.op = "handle_signed_packet"
    /\ last.out = "ok"
    /\ last.user = "B"
    /\ \E a \in DOMAIN transport :
          /\ transport[a].kind = "signed_packet"
          /\ map_contains(spongos_store["B"], relative(a))
          /\ map_contains(spongos_store["B"], Unwrapped(transport[a].link))
          /\ spongos_store["B"][relative(a)].parent
                = Some(spongos_store["B"][Unwrapped(transport[a].link)])

\* n < bound, for a u32 n and a bound below 2^31
Below(n, bound) ==
    \/ n[1] < bound \div Half
    \/ n[1] = bound \div Half /\ n[2] < bound % Half

\* the low three bytes of the number v, most significant first
LowThreeBytes(v) == <<(v \div 65536) % 256, (v \div 256) % 256, v % 256>>

\* C21: constructing a PayloadFrameNum or a PCF from the u32 n (PCF::new,
\* with_payload_frame_num, TryFrom<u32>) succeeds iff n < 2^22: 2^22 is
\* rejected, 2^22 - 1 is accepted; and an accepted value is emitted by Wrap as
\* exactly 3 bytes, the low three bytes of n in big-endian order.
FrameNumBounds ==
    /\ call.fn \in {"PCF::new", "with_payload_frame_num", "try_from"}
       => /\ IsOk(call.ret) <=> Below(call.arg, 4194304)
          /\ call.arg = u32_of(4194304) => ~IsOk(call.ret)
          /\ call.arg = u32_of(4194303) => IsOk(call.ret)
          /\ (call.fn = "PCF::new" /\ IsOk(call.ret))
             => Value(call.ret).payload_frame_num = call.arg
          /\ (call.fn = "with_payload_frame_num" /\ IsOk(call.ret))
             => pcf.payload_frame_num = call.arg
          /\ (call.fn = "try_from" /\ IsOk(call.ret)) => Value(call.ret) = call.arg
    /\ (call.fn = "wrap" /\ Below(call.arg.payload_frame_num, 4194304))
       => LET n == call.arg.payload_frame_num
              emitted == SubSeq(Value(call.ret), 2, Len(Value(call.ret)))
          IN /\ Len(emitted) = 3
             /\ emitted = LowThreeBytes(n[1] * 65536 + n[2])

\* the PCF constructed with the largest frame number was wrapped
FrameNumBoundsWitness ==
    /\ call.fn = "wrap"
    /\ pcf.payload_frame_num = u32_of(4194303)
    /\ Value(call.ret) = <<pcf.frame_type, 63, 255, 255>>

\* C22: every PCF value the program holds satisfies payload_frame_num >> 22 = 0,
\* a PCF whose frame number Unwrap read from an arbitrary 3-byte wire field
\* included.
FrameNumIn22Bits == Below(pcf.payload_frame_num, 4194304)

\* C24: restore(backup(U, pwd), pwd, transport) succeeds and yields a user
\* whose State equals the State of U: the same user_id, stream_address and
\* author_identifier and the same keys and values in spongos_store,
\* cursor_store, exchange_keys and psk_store.
BackupRoundTrip ==
    [][(call.fn = "backup" /\ call'.fn = "restore" /\ call'.arg[2] = call.arg[2])
       => call'.ret = Ok(call.arg[3])]_vars

\* a user that is in a stream, with cursors and spongos stored, was restored
\* from its backup
BackupRoundTripWitness ==
    /\ call.fn = "restore"
    /\ IsOk(call.ret)
    /\ IsSome(Value(call.ret).stream_address)
    /\ Cardinality(DOMAIN Value(call.ret).spongos_store) >= 2
    /\ Value(call.ret).cursor_store # EmptyMap

BackupDeterministic ==
    [][(call.fn = "backup" /\ call'.fn = "backup"
        /\ call'.arg[2] = call.arg[2] /\ call'.arg[3] = call.arg[3])
       => call'.ret = call.ret]_vars

\* C23: the number of bytes Wrap writes equals the size SizeOf computes over
\* the same description, for every message and for every State, so that
\* Message::wrap and User::backup never fail their "buffer consumed"
\* assertion, nor overrun the buffer, on valid inputs.
SizeOfMatchesWrap ==
    /\ call.fn = "backup" => IsOk(call.ret)
    /\ call.fn = "Message::wrap"
       => /\ call.ret \notin {Err("panic"), Err("StreamFull")}
          /\ (call.arg[3].keys = "Keypair" => IsOk(call.ret))

\* the State of a user in a stream, with several spongos, was backed up
SizeOfMatchesWrapWitness ==
    /\ call.fn = "backup"
    /\ IsOk(call.ret)
    /\ Cardinality(DOMAIN call.arg[3].spongos_store) >= 2
    /\ Value(call.ret).len > 500

\* C27: unwrapping a wrapped unsubscription against the parent Spongos the
\* wrap joined (in a build that knows the kind of the signing identity)
\* succeeds, recovers the identifier of the subscriber that was wrapped, and
\* ends in the Spongos the wrap ended in.
UnsubscriptionRoundTrip ==
    [][( /\ call.fn = "Message::wrap"
         /\ IsOk(call.ret)
         /\ call'.fn = "Message::unwrap"
         /\ call'.arg[2] = call.arg[2]
         /\ call.arg[3].keys = "DID" => call'.arg[3] )
       => call'.ret = Ok(<<Value(call.ret)[2], id_of(call.arg[3])>>)]_vars

\* an unsubscription of the key pair B, wrapped on the Spongos of a keyload,
\* was unwrapped on the same Spongos
UnsubscriptionRoundTripWitness ==
    /\ call.fn = "Message::unwrap"
    /\ IsOk(call.ret)
    /\ call.arg[2] = <<<<"absorb", "keyload">>>>
    /\ Value(call.ret)[2] = <<"EdPubKey", "B">>
    /\ Len(Value(call.ret)[1]) > 4

LinkedPackets == {"unsubscription", "signed_packet", "tagged_packet"}

\* C28: a linked message (unsubscription, signed packet, tagged packet)
\* unwrapped after joining a Spongos other than the one it was wrapped on
\* fails: the handler returns the unwrap error, stores no Spongos and removes
\* no subscriber; unwrapped after joining the Spongos it was wrapped on, it
\* succeeds and its Spongos is stored at its address.  An unsubscription
\* wrapped on one Spongos unwraps on that Spongos and on no other.
LinkageChecked ==
    [][/\ \A u \in Users : \A a \in DOMAIN transport : \A link \in DOMAIN spongos_store[u] :
            ( /\ last'.user = u
              /\ transport[a].kind \in LinkedPackets
              /\ receive_relinked_message(u, a, link) )
            => IF Some(spongos_store[u][link]) # transport[a].parent
               THEN /\ last'.out = "err:Unwrap"
                    /\ spongos_store'[u] = spongos_store[u]
                    /\ exchange_keys'[u] = exchange_keys[u]
               ELSE /\ last'.out = "ok"
                    /\ map_contains(spongos_store'[u], relative(a))
                    /\ spongos_store'[u][relative(a)] = wrap_spongos(transport[a])
       /\ ( /\ call.fn = "Message::wrap"
            /\ IsOk(call.ret)
            /\ call'.fn = "Message::unwrap" )
          => (IsOk(call'.ret) <=> call'.arg[2] = call.arg[2])]_vars

\* B was handed a signed packet whose header named another message B knows,
\* and an unsubscription was unwrapped on a Spongos it was not wrapped on
LinkageCheckedWitness ==
    /\ last.user = "B"
    /\ last.op = "handle_signed_packet"
    /\ last.out = "err:Unwrap"
    /\ call.fn = "Message::unwrap"
    /\ call.ret = Err("BadSignature")

\* the keyload m lists u: the identifier of u is among its subscribers, or u
\* holds one of its pre-shared keys
Listed(u, m) ==
    \/ IsSome(user_id[u]) /\ to_identifier(Unwrapped(user_id[u])) \in {identifier_of(p) : p \in m.content.subs}
    \/ m.content.psks \cap DOMAIN psk_store[u] # {}

\* u holds the Spongos of the announcement of its stream, and m is a keyload
\* the author of that stream wrapped on it
KeyloadOfStream(u, m) ==
    /\ m.kind = "keyload"
    /\ IsSome(author_identifier[u])
    /\ IsSome(stream_address[u])
    /\ map_contains(spongos_store[u], relative(Unwrapped(stream_address[u])))
    /\ m.parent = Some(spongos_store[u][relative(Unwrapped(stream_address[u]))])
    /\ m.sig = Unwrapped(author_identifier[u])

\* C29: a user that holds the Spongos of the announcement and is handed a
\* keyload of the author of its stream handles it successfully and stores
\* the Spongos of the keyload when the keyload lists it (its identifier or a
\* pre-shared key it holds); when the keyload does not list it, handle_keyload
\* fails and its spongos_store is as before, and a signed packet linked to a
\* message whose Spongos it does not hold is returned as an orphan, nothing
\* being stored for it.
KeyloadSelectivity ==
    [][\A u \in Users : \A a \in DOMAIN transport :
          /\ ( /\ last'.user = u
               /\ KeyloadOfStream(u, transport[a])
               /\ receive_message(u, a, FALSE) )
             => IF Listed(u, transport[a])
                THEN /\ last'.out = "ok"
                     /\ map_contains(spongos_store'[u], relative(a))
                     /\ spongos_store'[u][relative(a)] = wrap_spongos(transport[a])
                ELSE /\ last'.out = "err:Unwrap"
                     /\ spongos_store'[u] = spongos_store[u]
          /\ ( /\ last'.user = u
               /\ transport[a].kind = "signed_packet"
               /\ ~map_contains(spongos_store[u], Unwrapped(transport[a].link))
               /\ receive_message(u, a, FALSE) )
             => /\ last'.out = "orphan"
                /\ spongos_store'[u] = spongos_store[u]]_vars

\* B, in the stream of A and not listed in the keyload of A, failed to handle
\* that keyload and holds the Spongos of the announcement but none for the
\* keyload, which its author A holds
KeyloadSelectivityWitness ==
    /\ last.user = "B"
    /\ last.op = "handle_keyload"
    /\ last.out = "err:Unwrap"
    /\ IsSome(stream_address["B"])
    /\ map_contains(spongos_store["B"], relative(Unwrapped(stream_address["B"])))
    /\ \E a \in DOMAIN transport :
          /\ KeyloadOfStream("B", transport[a])
          /\ ~Listed("B", transport[a])
          /\ ~map_contains(spongos_store["B"], relative(a))
          /\ map_contains(spongos_store["A"], relative(a))

IdentityOps == {"get_ke_kp", "get_sig_sk", "sizeof", "sign"}

\* C30: get_ke_kp, get_sig_sk, sizeof and sign of an identity whose keys are a
\* pre-shared key each return the error NoSignatureKeyPair, which no other
\* identity gets, and Message::wrap signed by it returns that error and no
\* bytes; verify with tag 0 against an identifier that is not an Ed25519
\* public key returns BadIdentifier, and with a tag the build does not know
\* it returns BadOneof.
PskCannotSign ==
    /\ call.fn \in IdentityOps
       => (call.ret = Err("NoSignatureKeyPair") <=> call.arg.keys = "Psk")
    /\ call.fn = "Message::wrap"
       => (call.ret = Err("NoSignatureKeyPair") <=> call.arg[3].keys = "Psk")
    /\ (call.fn = "verify" /\ call.arg[2] = 0 /\ call.arg[1][1] # "EdPubKey")
       => call.ret = Err("BadIdentifier")
    /\ (call.fn = "verify" /\ (call.arg[2] \notin {0, 1} \/ (call.arg[2] = 1 /\ ~call.arg[3])))
       => call.ret = Err("BadOneof")

\* sign was called on the identity of the pre-shared key K1 and refused
PskCannotSignWitness ==
    /\ call.fn = "sign"
    /\ call.arg = PskIdentity("K1")
    /\ call.ret = Err("NoSignatureKeyPair")

SeededBy(before, after, L, id) ==
    IF is_cursor_tracked(before, id)
    THEN is_cursor_tracked(after, id) /\ after[id] = before[id]
    ELSE IF \E s \in L : identifier_of(s) = id /\ ~is_readonly(s)
         THEN is_cursor_tracked(after, id) /\ after[id] = INIT_MESSAGE_NUM
         ELSE ~is_cursor_tracked(after, id)

\* the identifiers a keyload with the list L lists
ListedIds(L) == {identifier_of(s) : s \in L}

\* C33 as stated: after a successful send_keyload or handle_keyload with the
\* list L, for every entry of L the cursor is unchanged if the entry is Read
\* or was tracked, and INIT_MESSAGE_NUM if it is ReadWrite or Admin and was
\* not tracked.
KeyloadSeedingEveryEntry ==
    [][\A u \in Users :
          /\ (SendSucceeds(u) /\ last'.op = "send_keyload")
             => \A id \in ListedIds(Unwrapped(pending[u]).subscribers) :
                   SeededBy(cursor_store[u], cursor_store'[u],
                            Unwrapped(pending[u]).subscribers, id)
          /\ \A a \in DOMAIN transport :
                (transport[a].kind = "keyload" /\ Receives(u, a, "ok"))
                => \A id \in ListedIds(transport[a].content.subs) :
                      SeededBy(cursor_store[u], cursor_store'[u], transport[a].content.subs, id)]_vars

\* C33 amended: the same for every entry of L other than the publisher of the
\* keyload, on the side of the sender and on the side of the receiver; the
\* cursor of the publisher becomes the larger of its previous cursor and the
\* sequence number of the keyload on both sides, listed or not.
KeyloadSeeding ==
    [][\A u \in Users :
          /\ (SendSucceeds(u) /\ last'.op = "send_keyload")
             => LET p == Unwrapped(pending[u])
                IN /\ \A id \in ListedIds(p.subscribers) \ {p.msg.publisher} :
                         SeededBy(cursor_store[u], cursor_store'[u], p.subscribers, id)
                   /\ cursor_store'[u][p.msg.publisher]
                         = Max(cursor_store[u][p.msg.publisher], p.msg.seq)
          /\ \A a \in DOMAIN transport :
                (transport[a].kind = "keyload" /\ Receives(u, a, "ok"))
                => LET m == transport[a]
                   IN /\ \A id \in ListedIds(m.content.subs) \ {m.publisher} :
                            SeededBy(cursor_store[u], cursor_store'[u], m.content.subs, id)
                      /\ cursor_store'[u][m.publisher]
                            = IF is_cursor_tracked(cursor_store[u], m.publisher)
                              THEN Max(cursor_store[u][m.publisher], m.seq)
                              ELSE m.seq]_vars

\* B, tracking no cursor of its own, handled a keyload of A that lists A and B
\* as ReadWrite: B is at INIT_MESSAGE_NUM and A at the sequence number of the
\* keyload, in the store of B as in the store of A
KeyloadSeedingWitness ==
    /\ last.user = "B"
    /\ last.op = "handle_keyload"
    /\ last.out = "ok"
    /\ \E a \in DOMAIN transport :
          /\ transport[a].kind = "keyload"
          /\ transport[a].content.subs = {ReadWrite("A"), ReadWrite("B")}
          /\ map_contains(spongos_store["B"], relative(a))
          /\ cursor_store["B"]["A"] = transport[a].seq
    /\ cursor_store["B"]["B"] = INIT_MESSAGE_NUM
    /\ cursor_store["A"] = cursor_store["B"]

\* C34: a successful handle_subscription sets exchange_keys[subscriber
\* identifier] to the exchange key of the subscriber carried by the message
\* and changes nothing else: user_id, cursor_store, spongos_store, psk_store,
\* stream_address and author_identifier are as before, and so is every other
\* entry of exchange_keys.
SubscriptionInstallsKey ==
    [][\A u \in Users : \A a \in DOMAIN transport :
          (transport[a].kind = "subscription" /\ Receives(u, a, "ok"))
          => /\ exchange_keys'[u] = map_insert(exchange_keys[u], transport[a].content.subject,
                                               transport[a].content.ke)
             /\ cursor_store'[u] = cursor_store[u]
             /\ spongos_store'[u] = spongos_store[u]
             /\ psk_store'[u] = psk_store[u]
             /\ stream_address'[u] = stream_address[u]
             /\ author_identifier'[u] = author_identifier[u]
             /\ user_id'[u] = user_id[u]]_vars

\* A has handled the subscription of B: it holds the exchange key of B, no
\* cursor for B and no Spongos at the address of the subscription
SubscriptionInstallsKeyWitness ==
    /\ last.user = "A"
    /\ last.op = "handle_subscription"
    /\ last.out = "ok"
    /\ map_contains(exchange_keys["A"], "B")
    /\ exchange_keys["A"]["B"] = ke_pk("B")
    /\ ~is_cursor_tracked(cursor_store["A"], "B")
    /\ \E a \in DOMAIN transport :
          transport[a].kind = "subscription" /\ ~map_contains(spongos_store["A"], relative(a))

\* C35: Unwrap of the three bytes Wrap emitted for a frame number below 2^22
\* yields that frame number again, and Wrap of the frame number Unwrap read
\* from any three bytes emits those three bytes.
FrameNumRoundTrip ==
    [][/\ ( /\ call.fn = "wrap"
            /\ Below(pcf.payload_frame_num, 4194304)
            /\ call'.fn = "unwrap"
            /\ call'.arg = Value(call.ret) )
          => pcf'.payload_frame_num = pcf.payload_frame_num
       /\ (call.fn = "unwrap" /\ call'.fn = "wrap")
          => SubSeq(Value(call'.ret), 2, 4) = SubSeq(call.arg, 2, 4)]_vars

\* the three bytes 63 255 255, which Wrap emits for 2^22 - 1, were unwrapped
\* into the frame number 2^22 - 1
FrameNumRoundTripWitness ==
    /\ call.fn = "unwrap"
    /\ SubSeq(call.arg, 2, 4) = <<63, 255, 255>>
    /\ pcf.payload_frame_num = u32_of(4194303)
    /\ NBytes_from(pcf.payload_frame_num) = <<63, 255, 255>>

\* the errors send_keyload returns before it wraps anything
KeyloadErrors == {"err:NoStream", "err:NoIdentity", "err:NotPublisher",
                  "err:UnknownSubscriber", "err:UnknownPsk"}

\* C36: when a listed subscriber has no entry in exchange_keys or a listed
\* PskId has no entry in psk_store, send_keyload returns an error, no send is
\* started and nothing reaches the transport, and the State of the sender, its
\* own cursor included, is as before the call.
KeyloadRecipientsValidated ==
    [][\A u \in Users : \A link_to \in StreamLinks(u) : \A k \in KeyloadInputs :
          ( /\ last'.user = u
            /\ \/ \E s \in k[1] : ~map_contains(exchange_keys[u], identifier_of(s))
               \/ \E id \in k[2] : ~map_contains(psk_store[u], id)
            /\ send_keyload(u, link_to, k[1], k[2]) )
          => /\ last'.out \in KeyloadErrors
             /\ pending'[u] = None
             /\ transport' = transport
             /\ State(u)' = State(u)]_vars

\* A, the author of a stream and at cursor INIT_MESSAGE_NUM, was refused a
\* keyload for a subscriber it has no exchange key of
KeyloadRecipientsValidatedWitness ==
    /\ last.user = "A"
    /\ last.op = "send_keyload"
    /\ last.out = "err:UnknownSubscriber"
    /\ IsSome(stream_address["A"])
    /\ cursor("A") = Some(INIT_MESSAGE_NUM)
    /\ ~map_contains(exchange_keys["A"], "B")
    /\ Cardinality(DOMAIN transport) = 1

\* the errors a send that needs the cursor of the user returns before it wraps
PublishErrors == {"err:NoStream", "err:NoIdentity", "err:NotPublisher"}

PublishedSeqs(u) ==
    IF IsSome(user_id[u])
    THEN {transport[a].seq : a \in {x \in DOMAIN transport :
              transport[x].publisher = to_identifier(Unwrapped(user_id[u]))}}
    ELSE {}

\* C38: under every interleaving of the sends of a user with handle_message on
\* any message, its own included, the sequence number the user publishes at
\* next is above that of every message it has published: successful sends are
\* strictly increasing and no send is attempted at a MsgId already used.
SendSequenceIncreasing ==
    \A u \in Users :
        (IsSome(stream_address[u]) /\ IsSome(next_cursor(u)))
        => \A seq \in PublishedSeqs(u) : seq < Unwrapped(next_cursor(u))

\* C39: in every reachable state stream_address is set exactly when
\* author_identifier is, and a user in a stream holds the exchange key of the
\* author, so that the expect() in subscribe never panics: no subscribe ends
\* in a panic.
AuthorKeyKept ==
    /\ \A u \in Users :
        /\ IsSome(stream_address[u]) <=> IsSome(author_identifier[u])
        /\ IsSome(stream_address[u])
           => /\ IsSome(author_identifier[u])
              /\ map_contains(exchange_keys[u], Unwrapped(author_identifier[u]))
    /\ ~(last.op = "subscribe" /\ last.out = "panic")

\* the step delivers to u the message at the address it handled in the step
\* before
Redelivers(u, address) ==
    /\ call.fn = "receive_message"
    /\ call.arg = <<u, address>>
    /\ last.user = u
    /\ last.op = HandleOp(transport[address].kind)
    /\ receive_message_again(u, address)

\* C40: handling the message at one address twice in a row leaves the State
\* of the user after the second handle_message as it was after the first, for
\* keyloads, signed and tagged packets, subscriptions and unsubscriptions;
\* the second handling of an announcement fails and changes no State.
RedeliveryIdempotent ==
    [][\A u \in Users : \A address \in DOMAIN transport :
          Redelivers(u, address)
          => /\ State(u)' = State(u)
             /\ transport[address].kind = "announcement" => last'.out # "ok"]_vars

\* B handled the keyload that lists it twice in a row, the second time after
\* the first had seeded its cursor and stored the spongos
RedeliveryIdempotentWitness ==
    /\ call.fn = "receive_message"
    /\ call.arg[1] = "B"
    /\ call.ret = <<"ok", 2>>
    /\ last.user = "B"
    /\ last.op = "handle_keyload"
    /\ cursor("B") = Some(INIT_MESSAGE_NUM)
    /\ map_contains(spongos_store["B"], relative(call.arg[2]))

\* C31: two instances with one identity and one cursor send to the same MsgId:
\* a send succeeds only at an address nothing occupies and occupies it, the
\* messages on the transport stay as they are, a send that reaches
\* send_message after the address was taken ends in an error with the State
\* of its user unchanged, so at most one of the sends succeeds; the user whose
\* send succeeded has its cursor at the new sequence number and the spongos in
\* store, and the State of every other user is left as it was.
ConcurrentSendersOneWins ==
    [][/\ \A address \in DOMAIN transport :
             /\ map_contains(transport', address)
             /\ transport'[address] = transport[address]
       /\ \A u \in Users :
             /\ SendSucceeds(u)
                => LET p == Unwrapped(pending[u])
                   IN /\ ~map_contains(transport, p.addr)
                      /\ map_contains(transport', p.addr)
                      /\ p.op \in CursorSendOps
                         => /\ cursor(u)' = Some(p.new_cursor)
                            /\ map_contains(spongos_store'[u], relative(p.addr))
                      /\ \A v \in Users \ {u} : State(v)' = State(v)
             /\ ( /\ ~Idle(u)
                  /\ map_contains(transport, Unwrapped(pending[u]).addr)
                  /\ pending'[u] # pending[u] )
                => /\ pending'[u] = None
                   /\ last'.user = u
                   /\ last'.out \in {"err:AddressConflict", "err:Transport"}
                   /\ State(u)' = State(u)]_vars

\* A and the instance restored from its backup both passed the recv_message
\* check for the MsgId of sequence number 2; the send of A succeeded and A is
\* at cursor 2 with the spongos in store, the send of B has ended in a
\* transport error and B is still at cursor 1 without the spongos
ConcurrentSendersOneWinsWitness ==
    /\ user_id["B"] = user_id["A"]
    /\ IsSome(stream_address["B"])
    /\ stream_address["B"] = stream_address["A"]
    /\ cursor("A") = Some(INIT_MESSAGE_NUM + 1)
    /\ cursor("B") = Some(INIT_MESSAGE_NUM)
    /\ last.user = "B"
    /\ last.op \in {"send_signed_packet", "send_tagged_packet"}
    /\ last.out = "err:Transport"
    /\ Idle("A") /\ Idle("B")
    /\ Cardinality(DOMAIN transport) = 2
    /\ Cardinality(DOMAIN spongos_store["A"]) = 2
    /\ Cardinality(DOMAIN spongos_store["B"]) = 1
====
